---- MODULE Spec2Model ----
(***************************************************************************)
(* Daily budget allocation engine of the "gastos" budgeting applications.  *)
(*                                                                         *)
(* Two variants of the application are modelled:                           *)
(*   RSR  src/App.tsx:1-292    days / dailyTarget / stats                  *)
(*   SCR  src/App.tsx:294-878  records / initialDailyBudget /              *)
(*                             rebalancedRecords                           *)
(* The variable `variant` selects which application is running; the state  *)
(* of the other one stays at its idle value.                               *)
(*                                                                         *)
(* Numbers.  Amounts and targets are integers (currency units); results of *)
(* a division are exact rationals <<numerator, denominator>> in lowest     *)
(* terms with a positive denominator.  The rounding of IEEE doubles is not *)
(* modelled.  A month has 1..MaxDays days instead of 28..31.               *)
(***************************************************************************)
EXTENDS Integers, Sequences, FiniteSets, TLC

(***************************************************************************)
(* Bounds of the model                                                     *)
(***************************************************************************)
\* longest month (stands for 31)
MaxDays == 3
\* number of expenses in existence at a time (ledger and stored ledgers)
MaxExpenses == 2
\* number of data rows of an imported file
MaxRows == 2

(***************************************************************************)
(* Exact rational arithmetic                                               *)
(***************************************************************************)
Abs(x) == IF x < 0 THEN -x ELSE x

RECURSIVE GCD(_, _)
GCD(a, b) == IF b = 0 THEN a ELSE GCD(b, a % b)

\* n / d in lowest terms, d # 0
Rat(n, d) ==
  LET g == GCD(Abs(n), Abs(d))
      s == IF d < 0 THEN -1 ELSE 1
  IN  <<(s * n) \div g, (s * d) \div g>>

RInt(n) == <<n, 1>>
RAdd(a, b) == Rat(a[1] * b[2] + b[1] * a[2], a[2] * b[2])
RSub(a, b) == Rat(a[1] * b[2] - b[1] * a[2], a[2] * b[2])
RMul(a, b) == Rat(a[1] * b[1], a[2] * b[2])
RLt(a, b) == a[1] * b[2] < b[1] * a[2]

RECURSIVE RSum(_)
RSum(s) == IF s = <<>> THEN RInt(0) ELSE RAdd(Head(s), RSum(Tail(s)))

RECURSIVE ISum(_)
ISum(s) == IF s = <<>> THEN 0 ELSE Head(s) + ISum(Tail(s))

Max(a, b) == IF a > b THEN a ELSE b

(***************************************************************************)
(* Text input: parseFloat and Number on strings given as character tuples  *)
(***************************************************************************)
NaN == [nan |-> TRUE, val |-> 0]
Num(n) == [nan |-> FALSE, val |-> n]

IsDigit(c) == c \in {"0", "1", "2", "3", "4", "5", "6", "7", "8", "9"}

DigitVal(c) ==
  CASE c = "0" -> 0 [] c = "1" -> 1 [] c = "2" -> 2 [] c = "3" -> 3
    [] c = "4" -> 4 [] c = "5" -> 5 [] c = "6" -> 6 [] c = "7" -> 7
    [] c = "8" -> 8 [] c = "9" -> 9

\* value of the longest prefix of digits of s, continuing from acc
RECURSIVE DigitPrefix(_, _)
DigitPrefix(s, acc) ==
  IF s = <<>> \/ ~IsDigit(Head(s)) THEN acc
  ELSE DigitPrefix(Tail(s), 10 * acc + DigitVal(Head(s)))

RECURSIVE TrimLeft(_)
TrimLeft(s) == IF s # <<>> /\ Head(s) = " " THEN TrimLeft(Tail(s)) ELSE s

\* parseFloat: skips leading blanks, reads an optional sign and the longest
\* prefix of digits, ignores what follows; NaN when there is no digit.
parseFloat(str) ==
  LET t    == TrimLeft(str)
      sgn  == IF t # <<>> /\ Head(t) = "-" THEN -1 ELSE 1
      body == IF t # <<>> /\ Head(t) \in {"-", "+"} THEN Tail(t) ELSE t
  IN  IF body = <<>> \/ ~IsDigit(Head(body)) THEN NaN
      ELSE Num(sgn * DigitPrefix(body, 0))

\* JavaScript `x || 0` on a number: NaN and 0 are falsy
OrZero(x) == IF x.nan THEN 0 ELSE x.val

\* s.split(sep) for a one-character separator
RECURSIVE splitFrom(_, _, _)
splitFrom(s, sep, cur) ==
  IF s = <<>> THEN <<cur>>
  ELSE IF Head(s) = sep THEN <<cur>> \o splitFrom(Tail(s), sep, <<>>)
       ELSE splitFrom(Tail(s), sep, Append(cur, Head(s)))

split(s, sep) == splitFrom(s, sep, <<>>)

\* s.includes(pat)
includes(s, pat) ==
  \E k \in 0..(Len(s) - Len(pat)) : SubSeq(s, k + 1, k + Len(pat)) = pat

RECURSIVE TrimRight(_)
TrimRight(s) ==
  IF s # <<>> /\ s[Len(s)] = " " THEN TrimRight(SubSeq(s, 1, Len(s) - 1)) ELSE s

\* s.trim()
trim(s) == TrimRight(TrimLeft(s))

\* s.replace(/c/g, '')
RECURSIVE removeAll(_, _)
removeAll(s, c) ==
  IF s = <<>> THEN <<>>
  ELSE IF Head(s) = c THEN removeAll(Tail(s), c)
       ELSE <<Head(s)>> \o removeAll(Tail(s), c)

\* s.replace(c, ''): the first occurrence only
RECURSIVE removeFirst(_, _)
removeFirst(s, c) ==
  IF s = <<>> THEN <<>>
  ELSE IF Head(s) = c THEN Tail(s)
       ELSE <<Head(s)>> \o removeFirst(Tail(s), c)

\* a.filter(Boolean) on an array of strings: drops the empty ones
RECURSIVE filterNonEmpty(_)
filterNonEmpty(a) ==
  IF a = <<>> THEN <<>>
  ELSE IF Head(a) = <<>> THEN filterNonEmpty(Tail(a))
       ELSE <<Head(a)>> \o filterNonEmpty(Tail(a))

\* parseInt on the inputs of the model (no fraction, no exponent) reads the
\* same prefix as parseFloat
parseInt(str) == parseFloat(str)

(***************************************************************************)
(* State                                                                   *)
(***************************************************************************)
VARIABLES
  variant,             \* which application is running: "RSR", "SCR", "SRV", or
                       \*      "RSR6" for the RSR application of src/unnamed/part_006
  days,                \* RSR: ledger, sequence of [day, expenses]
  dailyTarget,         \* RSR: base daily target
  daysInMonth,         \* RSR: calendar length of the current month
  records,             \* SCR, SRV: ledger, sequence of DailyRecord
  initialDailyBudget,  \* SCR, SRV: base daily budget
  selectedMonth,       \* SCR, SRV: selected month
  localStorage,        \* SCR, SRV: month key -> stored ledger (<<>> when absent)
  importPending,       \* SCR: the file reads in flight, each [month] of its render
  pendingLoad,         \* SCR: the setRecords call queued by the load effect
  unparsable,          \* SCR, SRV: the month keys whose stored text JSON.parse rejects
  pulls,               \* SRV: the months of the initData calls awaiting the server
  pushTimer,           \* SRV: the pending push timer, [month, records] of its render
  server,              \* SRV: month -> the array the server answers with (<<>>: none)
  syncKey,             \* RSR: text of the sync id field
  isSyncing,           \* RSR: a connect is running (the button is disabled)
  saveStatus,          \* RSR: "idle", "saving", "saved" or "error"
  connect,             \* RSR: the handleConnect call in flight, if any
  saveTimers,          \* RSR: the pending timers of the auto-save effect, each
                       \*      [syncKey, days, target] of the render that set it
  savesInFlight,       \* RSR: the auto-saves awaiting the server's answer
  idleTimers,          \* RSR6: number of pending timers that reset saveStatus
  scanningDay,         \* SCR: <<day>> of the receipt scan asked for, <<>> for null
  loadingAI,           \* SCR: a receipt is being read
  scans                \* SCR: the receipt reads in flight, each [day] of its
                       \*      render and the [month] selected at that time

vars == <<variant, days, dailyTarget, daysInMonth, records,
          initialDailyBudget, selectedMonth, localStorage, importPending,
          pendingLoad, unparsable, pulls, pushTimer, server,
          syncKey, isSyncing, saveStatus, connect,
          saveTimers, savesInFlight, idleTimers,
          scanningDay, loadingAI, scans>>

rsrVars == <<days, dailyTarget, daysInMonth>>
scrVars == <<records, initialDailyBudget, selectedMonth, localStorage, importPending>>
loadVars == <<pendingLoad, unparsable>>
srvVars == <<pulls, pushTimer, server>>
autoVars == <<saveTimers, savesInFlight, idleTimers>>
scanVars == <<scanningDay, loadingAI, scans>>
syncVars == <<syncKey, isSyncing, saveStatus, connect, autoVars>>

(***************************************************************************)
(* RSR variant (src/App.tsx:1-292)                                         *)
(***************************************************************************)
\* d.expenses.reduce((sum, e) => sum + e.amount, 0)
RECURSIVE spentOf(_)
spentOf(expenses) ==
  IF expenses = <<>> THEN 0 ELSE Head(expenses).amount + spentOf(Tail(expenses))

\* Array.from({ length: n }, (_, i) => ({ day: i + 1, expenses: [] }))
emptyDays(n) == [i \in 1..n |-> [day |-> i, expenses |-> <<>>]]

\* changed dailyExcesses: the excess is not clamped at 0
dailyExcessesUnclamped(ds, target) ==
  [i \in 1..Len(ds) |->
     [day |-> ds[i].day, excess |-> spentOf(ds[i].expenses) - target]]

\* first pass of stats: { day, excess } per day
dailyExcesses(ds, target) ==
  [i \in 1..Len(ds) |->
     [day |-> ds[i].day, excess |-> Max(0, spentOf(ds[i].expenses) - target)]]

totalExcess(ds, target) ==
  ISum([i \in 1..Len(ds) |-> dailyExcesses(ds, target)[i].excess])

\* changed penaltyDivisor: daysInMonth || 1
penaltyDivisorWholeMonth(dim) == IF dim = 0 THEN 1 ELSE dim

\* daysInMonth - 1 || 1
penaltyDivisor(dim) == IF dim - 1 = 0 THEN 1 ELSE dim - 1

\* changed stats: a day's own excess is not taken out of the excess it pays for
statsOwnExcessIncluded(ds, target, dim) ==
  [i \in 1..Len(ds) |->
     LET spent        == spentOf(ds[i].expenses)
         othersExcess == totalExcess(ds, target)
         penalty      == Rat(othersExcess, penaltyDivisor(dim))
         assigned     == RSub(RInt(target), penalty)
     IN  [day |-> ds[i].day, assigned |-> assigned, spent |-> spent,
          remaining |-> RSub(assigned, RInt(spent))]]

\* second pass of stats: { day, assigned, spent, remaining } per day
stats(ds, target, dim) ==
  [i \in 1..Len(ds) |->
     LET spent        == spentOf(ds[i].expenses)
         myExcess     == Max(0, spent - target)
         othersExcess == totalExcess(ds, target) - myExcess
         penalty      == Rat(othersExcess, penaltyDivisor(dim))
         assigned     == RSub(RInt(target), penalty)
     IN  [day |-> ds[i].day, assigned |-> assigned, spent |-> spent,
          remaining |-> RSub(assigned, RInt(spent))]]

\* what the user may type in the two prompts of addExpense
DescInputs == {<<>>, <<"g">>}
AmountInputs == {<<>>, <<"x">>, <<"6", "0">>, <<"2", "0">>, <<"-", "5">>}

\* what the user may type in the target field
TargetInputs == {<<>>, <<"3", "0">>}

\* Number(e.target.value) of an <input type="number">: '' gives 0
NumberOf(str) == IF str = <<>> THEN 0 ELSE parseFloat(str).val

\* setDays(prev => prev.map(d => d.day === dayNum ? {...d, expenses: [...]} : d))
appendExpense(ds, dayNum, e) ==
  [i \in 1..Len(ds) |->
     IF ds[i].day = dayNum
     THEN [ds[i] EXCEPT !.expenses = Append(@, e)]
     ELSE ds[i]]

\* d.expenses.filter(e => e.id !== id)
RECURSIVE filterOut(_, _)
filterOut(expenses, id) ==
  IF expenses = <<>> THEN <<>>
  ELSE IF Head(expenses).id = id THEN filterOut(Tail(expenses), id)
       ELSE <<Head(expenses)>> \o filterOut(Tail(expenses), id)

\* ids of all expenses of a ledger
idsOf(ledger) ==
  UNION {{ledger[i].expenses[j].id : j \in 1..Len(ledger[i].expenses)} :
           i \in 1..Len(ledger)}

\* number of expenses of a ledger
RECURSIVE countExpenses(_)
countExpenses(ledger) ==
  IF ledger = <<>> THEN 0
  ELSE Len(Head(ledger).expenses) + countExpenses(Tail(ledger))

\* generateId(): an id no expense of the ledger has
generateId(ledger) ==
  CHOOSE n \in 1..(MaxExpenses + MaxRows + 1) :
    /\ n \notin idsOf(ledger)
    /\ \A m \in 1..(n - 1) : m \in idsOf(ledger)
(***************************************************************************)
(* The auto-save effect of the RSR application (src/App.tsx:68-80,         *)
(* src/unnamed/part_006:74-88), run after every render in which days,      *)
(* dailyTarget or syncKey has changed.                                     *)
(***************************************************************************)
RSRVariants == {"RSR", "RSR6"}

\* changed clearTimer: the effect has no cleanup
clearTimerNothing(timers) == timers

\* return () => clearTimeout(timer): the cleanup of the previous run of the
\* effect clears the timer that run has set, the last one set
clearTimer(timers) ==
  IF timers = <<>> THEN <<>> ELSE SubSeq(timers, 1, Len(timers) - 1)

\* the timers after the effect of a render with the given syncKey, days and
\* dailyTarget: setTimeout(...) when syncKey.length > 4
timersAfterEffect(timers, key, ds, target) ==
  IF Len(key) > 4
  THEN Append(clearTimer(timers), [syncKey |-> key, days |-> ds, target |-> target])
  ELSE clearTimer(timers)

\* the effect as part of a handler that has set days', dailyTarget' and
\* syncKey'; src/unnamed/part_006 sets 'saving' when it schedules the save
autoSaveTimers ==
  /\ saveTimers' = IF <<days', dailyTarget', syncKey'>> = <<days, dailyTarget, syncKey>>
                   THEN saveTimers
                   ELSE timersAfterEffect(saveTimers, syncKey', days', dailyTarget')
  /\ UNCHANGED <<savesInFlight, idleTimers>>

autoSaveEffect ==
  /\ autoSaveTimers
  /\ saveStatus' = IF /\ <<days', dailyTarget', syncKey'>> # <<days, dailyTarget, syncKey>>
                      /\ variant = "RSR6" /\ Len(syncKey') > 4
                   THEN "saving" ELSE saveStatus

addExpense(dayNum, desc, amountStr) ==
  /\ variant \in RSRVariants
  /\ countExpenses(days) < MaxExpenses
  /\ IF desc = <<>> \/ amountStr = <<>> \/ parseFloat(amountStr).nan
     THEN UNCHANGED days
     ELSE days' = appendExpense(days, dayNum,
                    [id |-> generateId(days), amount |-> parseFloat(amountStr).val,
                     description |-> desc])
  /\ UNCHANGED <<variant, dailyTarget, daysInMonth>>
  /\ UNCHANGED <<scrVars, loadVars, srvVars, scanVars>>
  /\ UNCHANGED <<syncKey, isSyncing, connect>>
  /\ autoSaveEffect

\* the delete button of an expense row (src/App.tsx:262), confirmed
deleteExpense(dayNum, expId) ==
  /\ variant \in RSRVariants
  /\ days' = [i \in 1..Len(days) |->
                IF days[i].day = dayNum
                THEN [days[i] EXCEPT !.expenses = filterOut(@, expId)]
                ELSE days[i]]
  /\ UNCHANGED <<variant, dailyTarget, daysInMonth>>
  /\ UNCHANGED <<scrVars, loadVars, srvVars, scanVars>>
  /\ UNCHANGED <<syncKey, isSyncing, connect>>
  /\ autoSaveEffect

\* length of the ledger built by the reset button (stands for 31)
ResetLength == MaxDays

\* "Borrar Datos Mes", confirmed
resetDays ==
  /\ variant \in RSRVariants
  /\ days' = emptyDays(ResetLength)
  /\ UNCHANGED <<variant, dailyTarget, daysInMonth>>
  /\ UNCHANGED <<scrVars, loadVars, srvVars, scanVars>>
  /\ UNCHANGED <<syncKey, isSyncing, connect>>
  /\ autoSaveEffect

setDailyTarget(str) ==
  /\ variant \in RSRVariants
  /\ dailyTarget' = NumberOf(str)
  /\ UNCHANGED <<variant, days, daysInMonth>>
  /\ UNCHANGED <<scrVars, loadVars, srvVars, scanVars>>
  /\ UNCHANGED <<syncKey, isSyncing, connect>>
  /\ autoSaveEffect

\* Number(localStorage.getItem('gas_control_target')) || 30
DefaultTarget == 30

InitRSR ==
  /\ variant = "RSR"
  /\ daysInMonth \in 1..MaxDays
  \* a stored ledger of any month length, or a fresh one of daysInMonth days
  /\ \E n \in 1..MaxDays : days = emptyDays(n)
  /\ dailyTarget = DefaultTarget
  /\ records = <<>>
  /\ initialDailyBudget = 0
  /\ selectedMonth = 0
  /\ localStorage = [m \in {} |-> <<>>]
  /\ importPending = <<>>
  /\ pendingLoad = <<>>
  /\ unparsable = {}
  /\ pulls = {}
  /\ pushTimer = <<>>
  /\ server = [m \in {} |-> <<>>]
  /\ syncKey = <<>>
  /\ isSyncing = FALSE
  /\ saveStatus = "idle"
  /\ connect = <<>>
  /\ saveTimers = <<>>
  /\ savesInFlight = <<>>
  /\ idleTimers = 0
  /\ scanningDay = <<>>
  /\ loadingAI = FALSE
  /\ scans = <<>>

NextRSR ==
  \/ \E i \in 1..Len(days), desc \in DescInputs, a \in AmountInputs :
       addExpense(days[i].day, desc, a)
  \/ \E i \in 1..Len(days) : \E j \in 1..Len(days[i].expenses) :
       deleteExpense(days[i].day, days[i].expenses[j].id)
  \/ resetDays
  \/ \E str \in TargetInputs : setDailyTarget(str)

(***************************************************************************)
(* SCR variant (src/App.tsx:294-878)                                       *)
(***************************************************************************)
\* the months of the selector (stand for 0..11)
Months == {0, 1}

\* new Date(selectedYear, selectedMonth + 1, 0).getDate()
daysInMonthOf(m) == IF m = 0 THEN MaxDays ELSE MaxDays - 1

\* const saved = localStorage.getItem(BUDGET_STORAGE_KEY); saved ? parseFloat(saved) : 50
DefaultBudget == 50

\* createNewMonth(days) of a render whose selected month is m.  The field
\* adjustedBudget: initialDailyBudget of a record held in `records` is never
\* read: rebalancedRecords replaces it before any use (src/App.tsx:379), and
\* everything rendered, stored or exported is taken from rebalancedRecords.
\* The model therefore keeps adjustedBudget only in the output of
\* rebalancedRecords and in localStorage, not in `records`.
createNewMonth(n, m) ==
  [i \in 1..n |->
     [day |-> i, expenses |-> <<>>, isLocked |-> FALSE, date |-> <<m, i>>]]

\* changed withAdjustedBudget: the pass also locks the day it has processed
withAdjustedBudgetLocking(record, currentTarget) ==
  [day |-> record.day, expenses |-> record.expenses, isLocked |-> TRUE,
   date |-> record.date, adjustedBudget |-> currentTarget]

\* { ...record, adjustedBudget: currentTarget }
withAdjustedBudget(record, currentTarget) ==
  [day |-> record.day, expenses |-> record.expenses, isLocked |-> record.isLocked,
   date |-> record.date, adjustedBudget |-> currentTarget]

\* a stored record as held in `records`
asRecord(stored) ==
  [day |-> stored.day, expenses |-> stored.expenses, isLocked |-> stored.isLocked,
   date |-> stored.date]

\* changed rebalanceStep: a locked day's spend and count are added before its
\* own allowance is computed
rebalanceStepAccumulateFirst(st, record, n, totalBudget) ==
  LET remainingDays   == n - (IF record.isLocked THEN st.processedDaysCount + 1
                               ELSE st.processedDaysCount)
      remainingBudget == totalBudget - (IF record.isLocked
                                        THEN st.accumulatedSpent + spentOf(record.expenses)
                                        ELSE st.accumulatedSpent)
      currentTarget   == IF remainingDays > 0
                         THEN Rat(remainingBudget, remainingDays)
                         ELSE RInt(0)
      dayTotal        == spentOf(record.expenses)
  IN  [accumulatedSpent   |-> IF record.isLocked
                              THEN st.accumulatedSpent + dayTotal
                              ELSE st.accumulatedSpent,
       processedDaysCount |-> IF record.isLocked
                              THEN st.processedDaysCount + 1
                              ELSE st.processedDaysCount,
       out   |-> Append(st.out, withAdjustedBudget(record, currentTarget)),
       trace |-> Append(st.trace,
                   [remainingDays |-> remainingDays,
                    remainingBudget |-> remainingBudget,
                    accumulatedSpent |-> st.accumulatedSpent,
                    processedDaysCount |-> st.processedDaysCount,
                    currentTarget |-> currentTarget])]

\* changed rebalanceStep: the remaining budget is divided by the number of
\* days of the month instead of the remaining days
rebalanceStepDividedByAllDays(st, record, n, totalBudget) ==
  LET remainingDays   == n - st.processedDaysCount
      remainingBudget == totalBudget - st.accumulatedSpent
      currentTarget   == IF remainingDays > 0
                         THEN Rat(remainingBudget, n)
                         ELSE RInt(0)
      dayTotal        == spentOf(record.expenses)
  IN  [accumulatedSpent   |-> IF record.isLocked
                              THEN st.accumulatedSpent + dayTotal
                              ELSE st.accumulatedSpent,
       processedDaysCount |-> IF record.isLocked
                              THEN st.processedDaysCount + 1
                              ELSE st.processedDaysCount,
       out   |-> Append(st.out, withAdjustedBudget(record, currentTarget)),
       trace |-> Append(st.trace,
                   [remainingDays |-> remainingDays,
                    remainingBudget |-> remainingBudget,
                    accumulatedSpent |-> st.accumulatedSpent,
                    processedDaysCount |-> st.processedDaysCount,
                    currentTarget |-> currentTarget])]

\* changed rebalanceStep: every day counts as processed, locked or not
rebalanceStepEveryDayProcessed(st, record, n, totalBudget) ==
  LET remainingDays   == n - st.processedDaysCount
      remainingBudget == totalBudget - st.accumulatedSpent
      currentTarget   == IF remainingDays > 0
                         THEN Rat(remainingBudget, remainingDays)
                         ELSE RInt(0)
      dayTotal        == spentOf(record.expenses)
  IN  [accumulatedSpent   |-> IF record.isLocked
                              THEN st.accumulatedSpent + dayTotal
                              ELSE st.accumulatedSpent,
       processedDaysCount |-> st.processedDaysCount + 1,
       out   |-> Append(st.out, withAdjustedBudget(record, currentTarget)),
       trace |-> Append(st.trace,
                   [remainingDays |-> remainingDays,
                    remainingBudget |-> remainingBudget,
                    accumulatedSpent |-> st.accumulatedSpent,
                    processedDaysCount |-> st.processedDaysCount,
                    currentTarget |-> currentTarget])]

\* changed rebalanceStep: a locked day is counted but its spend is not added
rebalanceStepSpendNotAccumulated(st, record, n, totalBudget) ==
  LET remainingDays   == n - st.processedDaysCount
      remainingBudget == totalBudget - st.accumulatedSpent
      currentTarget   == IF remainingDays > 0
                         THEN Rat(remainingBudget, remainingDays)
                         ELSE RInt(0)
      dayTotal        == spentOf(record.expenses)
  IN  [accumulatedSpent   |-> st.accumulatedSpent,
       processedDaysCount |-> IF record.isLocked
                              THEN st.processedDaysCount + 1
                              ELSE st.processedDaysCount,
       out   |-> Append(st.out, withAdjustedBudget(record, currentTarget)),
       trace |-> Append(st.trace,
                   [remainingDays |-> remainingDays,
                    remainingBudget |-> remainingBudget,
                    accumulatedSpent |-> st.accumulatedSpent,
                    processedDaysCount |-> st.processedDaysCount,
                    currentTarget |-> currentTarget])]

\* changed rebalanceStep: the day being visited is already taken out of the
\* remaining days
rebalanceStepDaysAfterThisOne(st, record, n, totalBudget) ==
  LET remainingDays   == n - st.processedDaysCount - 1
      remainingBudget == totalBudget - st.accumulatedSpent
      currentTarget   == IF remainingDays > 0
                         THEN Rat(remainingBudget, remainingDays)
                         ELSE RInt(0)
      dayTotal        == spentOf(record.expenses)
  IN  [accumulatedSpent   |-> IF record.isLocked
                              THEN st.accumulatedSpent + dayTotal
                              ELSE st.accumulatedSpent,
       processedDaysCount |-> IF record.isLocked
                              THEN st.processedDaysCount + 1
                              ELSE st.processedDaysCount,
       out   |-> Append(st.out, withAdjustedBudget(record, currentTarget)),
       trace |-> Append(st.trace,
                   [remainingDays |-> remainingDays,
                    remainingBudget |-> remainingBudget,
                    accumulatedSpent |-> st.accumulatedSpent,
                    processedDaysCount |-> st.processedDaysCount,
                    currentTarget |-> currentTarget])]

\* one iteration of records.map in rebalancedRecords: st holds the two
\* accumulators and the output so far
rebalanceStep(st, record, n, totalBudget) ==
  LET remainingDays   == n - st.processedDaysCount
      remainingBudget == totalBudget - st.accumulatedSpent
      currentTarget   == IF remainingDays > 0
                         THEN Rat(remainingBudget, remainingDays)
                         ELSE RInt(0)
      dayTotal        == spentOf(record.expenses)
  IN  [accumulatedSpent   |-> IF record.isLocked
                              THEN st.accumulatedSpent + dayTotal
                              ELSE st.accumulatedSpent,
       processedDaysCount |-> IF record.isLocked
                              THEN st.processedDaysCount + 1
                              ELSE st.processedDaysCount,
       out   |-> Append(st.out, withAdjustedBudget(record, currentTarget)),
       trace |-> Append(st.trace,
                   [remainingDays |-> remainingDays,
                    remainingBudget |-> remainingBudget,
                    accumulatedSpent |-> st.accumulatedSpent,
                    processedDaysCount |-> st.processedDaysCount,
                    currentTarget |-> currentTarget])]

\* changed totalMonthlyBudget: a fixed month length, as the reset button of
\* the RSR variant uses
totalMonthlyBudgetFixedLength(recs, budget) == budget * ResetLength

\* const totalMonthlyBudget = initialDailyBudget * records.length
totalMonthlyBudget(recs, budget) == budget * Len(recs)

\* the pass over the first k records
RECURSIVE rebalancePass(_, _, _)
rebalancePass(recs, budget, k) ==
  IF k = 0
  THEN [accumulatedSpent |-> 0, processedDaysCount |-> 0, out |-> <<>>, trace |-> <<>>]
  ELSE rebalanceStep(rebalancePass(recs, budget, k - 1), recs[k],
                     Len(recs), totalMonthlyBudget(recs, budget))

rebalancedRecords(recs, budget) ==
  IF Len(recs) = 0 THEN <<>> ELSE rebalancePass(recs, budget, Len(recs)).out

\* sum of e.amount over all expenses of all records
totalSpentOf(recs) ==
  ISum([i \in 1..Len(recs) |-> spentOf(recs[i].expenses)])

\* rebalancedRecords.filter(r => r.isLocked)
lockedDaysOf(recs) == SelectSeq(recs, LAMBDA r : r.isLocked)

\* changed summary: the allowance is the remaining budget over all the days of
\* the month
summaryAllowanceOverAllDays(recs, budget) ==
  LET rr                 == rebalancedRecords(recs, budget)
      totalSpent         == totalSpentOf(rr)
      lockedDays         == lockedDaysOf(rr)
      n                  == Len(rr)
      totalBudget        == budget * n
      remainingBudget    == totalBudget - totalSpent
      remainingDaysCount == n - Len(lockedDays)
  IN  [totalBudget  |-> totalBudget,
       totalSpent   |-> totalSpent,
       totalBalance |-> totalBudget - totalSpent,
       projectedSpending |-> IF Len(lockedDays) > 0
                             THEN RMul(Rat(totalSpent, Len(lockedDays)), RInt(n))
                             ELSE RInt(0),
       isOverBudget |-> totalSpent > totalBudget,
       currentDailyAllowance |-> IF remainingDaysCount > 0
                                 THEN Rat(remainingBudget, n)
                                 ELSE RInt(0)]

\* changed summary: the allowance divides the whole budget, the money spent
\* not being taken off
summaryAllowanceIgnoresSpend(recs, budget) ==
  LET rr                 == rebalancedRecords(recs, budget)
      totalSpent         == totalSpentOf(rr)
      lockedDays         == lockedDaysOf(rr)
      n                  == Len(rr)
      totalBudget        == budget * n
      remainingBudget    == totalBudget
      remainingDaysCount == n - Len(lockedDays)
  IN  [totalBudget  |-> totalBudget,
       totalSpent   |-> totalSpent,
       totalBalance |-> totalBudget - totalSpent,
       projectedSpending |-> IF Len(lockedDays) > 0
                             THEN RMul(Rat(totalSpent, Len(lockedDays)), RInt(n))
                             ELSE RInt(0),
       isOverBudget |-> totalSpent > totalBudget,
       currentDailyAllowance |-> IF remainingDaysCount > 0
                                 THEN Rat(remainingBudget, remainingDaysCount)
                                 ELSE RInt(0)]

\* the summary memo (src/App.tsx:568-584)
summary(recs, budget) ==
  LET rr                 == rebalancedRecords(recs, budget)
      totalSpent         == totalSpentOf(rr)
      lockedDays         == lockedDaysOf(rr)
      n                  == Len(rr)
      totalBudget        == budget * n
      remainingBudget    == totalBudget - totalSpent
      remainingDaysCount == n - Len(lockedDays)
  IN  [totalBudget  |-> totalBudget,
       totalSpent   |-> totalSpent,
       totalBalance |-> totalBudget - totalSpent,
       projectedSpending |-> IF Len(lockedDays) > 0
                             THEN RMul(Rat(totalSpent, Len(lockedDays)), RInt(n))
                             ELSE RInt(0),
       isOverBudget |-> totalSpent > totalBudget,
       currentDailyAllowance |-> IF remainingDaysCount > 0
                                 THEN Rat(remainingBudget, remainingDaysCount)
                                 ELSE RInt(0)]

\* the persist effect: localStorage.setItem(currentMonthKey, JSON.stringify(rebalancedRecords))
persist(store, m, recs, budget) ==
  IF Len(rebalancedRecords(recs, budget)) > 0
  THEN [store EXCEPT ![m] = rebalancedRecords(recs, budget)]
  ELSE store

\* the load effect: the stored ledger when its length fits, else a fresh month
loadMonth(store, m) ==
  IF store[m] # <<>> /\ Len(store[m]) = daysInMonthOf(m)
  THEN [i \in 1..Len(store[m]) |-> asRecord(store[m][i])]
  ELSE createNewMonth(daysInMonthOf(m), m)

\* the load effect of a render whose selected month is m: the argument of its
\* setRecords call; JSON.parse throws on the text of a key in `bad`
loadEffect(store, bad, m) ==
  IF m \in bad
  THEN createNewMonth(daysInMonthOf(m), m)
  ELSE loadMonth(store, m)

\* localStorage.setItem(currentMonthKey, ...) replaces an unparsable text
unparsableAfter(bad, m, recs) ==
  IF Len(recs) > 0 THEN bad \ {m} ELSE bad

\* expenses in existence: the ledger and the ledgers of the other months
RECURSIVE storedExpenses(_, _)
storedExpenses(store, ms) ==
  IF ms = {} THEN 0
  ELSE LET m == CHOOSE x \in ms : TRUE
       IN  countExpenses(store[m]) + storedExpenses(store, ms \ {m})

expensesInExistence ==
  countExpenses(records) + storedExpenses(localStorage, Months \ {selectedMonth})

\* what the user may type in an amount field, a label field, the budget field
FieldAmountInputs == {<<>>, <<"6", "0">>, <<"2", "5">>}
LabelInputs == {<<"g">>}
BudgetInputs == {<<>>, <<"3", "0">>}

\* the month selector: the render with the new month and the effects that
\* follow it.  The load effect reads the new key and queues setRecords; the
\* persist effect, whose currentMonthKey has changed, stores the
\* rebalancedRecords of this render, which are still those of the old month.
setSelectedMonth(m) ==
  /\ variant = "SCR"
  /\ pendingLoad = <<>>
  /\ m # selectedMonth
  /\ selectedMonth' = m
  /\ pendingLoad' = <<loadEffect(localStorage, unparsable, m)>>
  /\ localStorage' = persist(localStorage, m, records, initialDailyBudget)
  /\ unparsable' = unparsableAfter(unparsable, m, records)
  /\ UNCHANGED <<variant, records, initialDailyBudget, importPending>>
  /\ UNCHANGED <<rsrVars, srvVars, scanVars, syncVars>>

setInitialDailyBudget(str) ==
  /\ variant = "SCR"
  /\ pendingLoad = <<>>
  /\ initialDailyBudget' = OrZero(parseFloat(str))
  /\ localStorage' = persist(localStorage, selectedMonth, records, initialDailyBudget')
  /\ unparsable' = unparsableAfter(unparsable, selectedMonth, records)
  /\ UNCHANGED <<variant, records, selectedMonth, importPending, pendingLoad>>
  /\ UNCHANGED <<rsrVars, srvVars, scanVars, syncVars>>

\* setRecords(...) followed by the persist effect of the next render
setRecords(newRecords) ==
  /\ records' = newRecords
  /\ localStorage' = persist(localStorage, selectedMonth, records', initialDailyBudget)
  /\ unparsable' = unparsableAfter(unparsable, selectedMonth, records')

\* the render that follows the load effect: its setRecords call takes effect
commitLoad ==
  /\ variant = "SCR"
  /\ pendingLoad # <<>>
  /\ setRecords(pendingLoad[1])
  /\ pendingLoad' = <<>>
  /\ UNCHANGED <<variant, initialDailyBudget, selectedMonth, importPending>>
  /\ UNCHANGED <<rsrVars, srvVars, scanVars, syncVars>>

\* the updater of handleExpenseChange: prev => prev.map(r => ...)
changedExpense(prev, day, expenseId, field, value) ==
  [i \in 1..Len(prev) |->
     IF prev[i].day = day
     THEN [prev[i] EXCEPT
             !.expenses = [j \in 1..Len(@) |->
                IF @[j].id = expenseId
                THEN IF field = "amount"
                     THEN [@[j] EXCEPT !.amount = OrZero(parseFloat(value))]
                     ELSE [@[j] EXCEPT !.label = value]
                ELSE @[j]],
             !.isLocked = TRUE]
     ELSE prev[i]]

handleExpenseChange(day, expenseId, field, value) ==
  /\ variant = "SCR"
  /\ pendingLoad = <<>>
  /\ setRecords(changedExpense(records, day, expenseId, field, value))
  /\ UNCHANGED <<variant, initialDailyBudget, selectedMonth, importPending, pendingLoad>>
  /\ UNCHANGED <<rsrVars, srvVars, scanVars, syncVars>>

\* changed withNewExpense: a day past the end of the ledger is taken for its
\* last day
withNewExpenseOnLastDay(prev, day, initialAmount, initialLabel) ==
  [i \in 1..Len(prev) |->
     IF prev[i].day = day \/ (i = Len(prev) /\ day > prev[i].day)
     THEN [prev[i] EXCEPT
             !.expenses = Append(@, [id |-> generateId(prev),
                                     amount |-> initialAmount,
                                     label |-> initialLabel]),
             !.isLocked = TRUE]
     ELSE prev[i]]

\* the updater of addNewExpenseField: prev => prev.map(r => ...)
withNewExpense(prev, day, initialAmount, initialLabel) ==
  [i \in 1..Len(prev) |->
     IF prev[i].day = day
     THEN [prev[i] EXCEPT
             !.expenses = Append(@, [id |-> generateId(prev),
                                     amount |-> initialAmount,
                                     label |-> initialLabel]),
             !.isLocked = TRUE]
     ELSE prev[i]]

addNewExpenseField(day, initialAmount, initialLabel) ==
  /\ variant = "SCR"
  /\ pendingLoad = <<>>
  /\ expensesInExistence < MaxExpenses
  /\ setRecords(withNewExpense(records, day, initialAmount, initialLabel))
  /\ UNCHANGED <<variant, initialDailyBudget, selectedMonth, importPending, pendingLoad>>
  /\ UNCHANGED <<rsrVars, srvVars, scanVars, syncVars>>

\* changed withoutExpense: the day stays locked, as after an edit
withoutExpenseStaysLocked(r, expenseId) ==
  [r EXCEPT !.expenses = filterOut(r.expenses, expenseId), !.isLocked = TRUE]

\* { ...r, expenses: filtered, isLocked: filtered.length > 0 }
withoutExpense(r, expenseId) ==
  LET filtered == filterOut(r.expenses, expenseId)
  IN  [r EXCEPT !.expenses = filtered, !.isLocked = Len(filtered) > 0]

\* the updater of removeExpense: prev => prev.map(r => ...)
removedExpense(prev, day, expenseId) ==
  [i \in 1..Len(prev) |->
     IF prev[i].day = day
     THEN withoutExpense(prev[i], expenseId)
     ELSE prev[i]]

removeExpense(day, expenseId) ==
  /\ variant = "SCR"
  /\ pendingLoad = <<>>
  /\ setRecords(removedExpense(records, day, expenseId))
  /\ UNCHANGED <<variant, initialDailyBudget, selectedMonth, importPending, pendingLoad>>
  /\ UNCHANGED <<rsrVars, srvVars, scanVars, syncVars>>

\* changed pushImported: the day is not locked
pushImportedNotLocked(newRecords, index, monto, label) ==
  [newRecords EXCEPT
     ![index] = [@ EXCEPT
        !.expenses = Append(@, [id |-> generateId(newRecords),
                                amount |-> monto, label |-> label])]]

\* newRecords[index].expenses.push({id, amount, label}); newRecords[index].isLocked = true
pushImported(newRecords, index, monto, label) ==
  [newRecords EXCEPT
     ![index] = [@ EXCEPT
        !.expenses = Append(@, [id |-> generateId(newRecords),
                                amount |-> monto, label |-> label]),
        !.isLocked = TRUE]]

\* body of lines.forEach in the CSV branch
importCsvLine(newRecords, line, dim) ==
  LET cells == split(line, ",")
      dia   == parseInt(cells[1])
      monto == IF Len(cells) >= 3 THEN parseFloat(cells[3]) ELSE NaN
  IN  IF ~dia.nan /\ dia.val > 0 /\ dia.val <= dim /\ ~monto.nan
      THEN pushImported(newRecords, dia.val, monto.val, removeAll(cells[2], "\""))
      ELSE newRecords

\* body of rows.forEach in the Markdown branch
importMdRow(newRecords, row, dim) ==
  LET raw   == split(row, "|")
      cells == filterNonEmpty([k \in 1..Len(raw) |-> trim(raw[k])])
  IN  IF Len(cells) >= 3
      THEN LET dia   == parseInt(cells[1])
               monto == parseFloat(removeFirst(cells[3], "$"))
           IN  IF ~dia.nan /\ dia.val > 0 /\ dia.val <= dim /\ ~monto.nan
               THEN pushImported(newRecords, dia.val, monto.val, cells[2])
               ELSE newRecords
      ELSE newRecords

\* the rows kept by the filter of the Markdown branch (the header row, which
\* the source recognises by its accented title, is written without the accent)
isMdRow(l) ==
  /\ includes(l, <<"|">>)
  /\ ~includes(l, <<":", "-", "-", "-">>)
  /\ ~includes(l, <<"D", "i", "a", " ", "|">>)

RECURSIVE importLines(_, _, _, _)
importLines(newRecords, lines, kind, dim) ==
  IF lines = <<>> THEN newRecords
  ELSE LET next == IF kind = "csv" THEN importCsvLine(newRecords, Head(lines), dim)
                   ELSE IF isMdRow(Head(lines))
                        THEN importMdRow(newRecords, Head(lines), dim)
                        ELSE newRecords
       IN  importLines(next, Tail(lines), kind, dim)

\* lines of an imported file after the header (CSV) or anywhere (Markdown)
CsvLines ==
  { <<"1", ",", "g", ",", "6", "0">>,
    <<"2", ",", "\"", "g", "\"", ",", "2", "5">>,
    <<"9", ",", "g", ",", "6", "0">>,
    <<"1", ",", "g", ",", "x">>,
    <<>> }

MdLines ==
  { <<"|", " ", "1", " ", "|", " ", "g", " ", "|", " ", "$", "6", "0", " ", "|">>,
    <<"|", " ", "2", " ", "|", " ", "g", " ", "|", " ", "$", "2", "5", " ", "|">>,
    <<"|", " ", "9", " ", "|", " ", "g", " ", "|", " ", "$", "6", "0", " ", "|">>,
    <<"|", " ", "1", " ", "|", " ", "|", " ", "$", "6", "0", " ", "|">>,
    <<"|", " ", ":", "-", "-", "-", " ", "|">> }

FileKinds == {"csv", "md", "other"}

LinesOf(kind) == IF kind = "csv" THEN CsvLines ELSE MdLines

\* the files a user may pick: a kind and at most MaxRows lines
FileContents(kind) ==
  UNION {[1..n -> LinesOf(kind)] : n \in 0..MaxRows}

\* handleImportDatabase up to reader.readAsText(file): the onload callback
\* keeps the month of the render that created it
handleImportDatabase ==
  /\ variant = "SCR"
  /\ pendingLoad = <<>>
  /\ importPending = <<>>
  /\ importPending' = <<[month |-> selectedMonth]>>
  /\ UNCHANGED <<variant, records, initialDailyBudget, selectedMonth, localStorage>>
  /\ UNCHANGED loadVars
  /\ UNCHANGED <<rsrVars, srvVars, scanVars, syncVars>>

\* reader.onload
importOnload(kind, content) ==
  /\ variant = "SCR"
  /\ pendingLoad = <<>>
  /\ importPending # <<>>
  /\ LET dim == daysInMonthOf(importPending[1].month)
         newRecords == createNewMonth(dim, importPending[1].month)
         imported == IF kind = "other" THEN newRecords
                     ELSE importLines(newRecords, content, kind, dim)
     IN  /\ countExpenses(imported)
              + storedExpenses(localStorage, Months \ {selectedMonth}) <= MaxExpenses
         /\ setRecords(imported)
  /\ importPending' = <<>>
  /\ UNCHANGED <<variant, initialDailyBudget, selectedMonth, pendingLoad>>
  /\ UNCHANGED <<rsrVars, srvVars, scanVars, syncVars>>

InitSCR ==
  /\ variant = "SCR"
  /\ days = <<>>
  /\ dailyTarget = 0
  /\ daysInMonth = 0
  /\ initialDailyBudget = DefaultBudget
  /\ selectedMonth \in Months
  /\ records = createNewMonth(daysInMonthOf(selectedMonth), selectedMonth)
  /\ localStorage = [m \in Months |->
                       IF m = selectedMonth
                       THEN rebalancedRecords(records, DefaultBudget)
                       ELSE <<>>]
  /\ importPending = <<>>
  /\ pendingLoad = <<>>
  /\ unparsable = {}
  /\ pulls = {}
  /\ pushTimer = <<>>
  /\ server = [m \in {} |-> <<>>]
  /\ syncKey = <<>>
  /\ isSyncing = FALSE
  /\ saveStatus = "idle"
  /\ connect = <<>>
  /\ saveTimers = <<>>
  /\ savesInFlight = <<>>
  /\ idleTimers = 0
  /\ scanningDay = <<>>
  /\ loadingAI = FALSE
  /\ scans = <<>>

NextSCR ==
  \/ \E str \in BudgetInputs : setInitialDailyBudget(str)
  \/ \E i \in 1..Len(records) : \E j \in 1..Len(records[i].expenses) :
       \/ \E v \in FieldAmountInputs :
            handleExpenseChange(records[i].day, records[i].expenses[j].id, "amount", v)
       \/ \E v \in LabelInputs \cup {<<>>} :
            handleExpenseChange(records[i].day, records[i].expenses[j].id, "label", v)
  \/ \E i \in 1..Len(records) : addNewExpenseField(records[i].day, 0, <<>>)
  \/ \E i \in 1..Len(records) : \E j \in 1..Len(records[i].expenses) :
       removeExpense(records[i].day, records[i].expenses[j].id)
  \/ handleImportDatabase
  \/ \E kind \in FileKinds : \E content \in FileContents(kind) :
       importOnload(kind, content)

Init == InitRSR \/ InitSCR
Next == NextRSR \/ NextSCR

\* either application, within one period
Spec == Init /\ [][Next]_vars

\* the SCR application with the month selector
\* what localStorage may hold under the key of month m when the application
\* is opened: nothing, a ledger of another length (an earlier version, a
\* month of another year), or the ledger of the month with day 1 spent on
StoredItems(m) ==
  { <<>>,
    rebalancedRecords(createNewMonth(daysInMonthOf(m) + 1, m), DefaultBudget),
    rebalancedRecords(withNewExpense(createNewMonth(daysInMonthOf(m), m), 1, 60, <<"g">>),
                      DefaultBudget) }

\* first render of the SCR variant and its effects: records is still [], the
\* load effect has queued its setRecords, the persist effect has written
\* nothing (rebalancedRecords.length = 0)
InitPeriods ==
  /\ variant = "SCR"
  /\ days = <<>>
  /\ dailyTarget = 0
  /\ daysInMonth = 0
  /\ initialDailyBudget = DefaultBudget
  /\ selectedMonth \in Months
  /\ records = <<>>
  /\ localStorage \in [Months -> UNION {StoredItems(m) : m \in Months}]
  /\ \A m \in Months : localStorage[m] \in StoredItems(m)
  /\ unparsable \in SUBSET {m \in Months : localStorage[m] = <<>>}
  /\ pendingLoad = <<loadEffect(localStorage, unparsable, selectedMonth)>>
  /\ importPending = <<>>
  /\ pulls = {}
  /\ pushTimer = <<>>
  /\ server = [m \in {} |-> <<>>]
  /\ syncKey = <<>>
  /\ isSyncing = FALSE
  /\ saveStatus = "idle"
  /\ connect = <<>>
  /\ saveTimers = <<>>
  /\ savesInFlight = <<>>
  /\ idleTimers = 0
  /\ scanningDay = <<>>
  /\ loadingAI = FALSE
  /\ scans = <<>>

\* the files imported while months are changed: one CSV line each
PeriodFiles == {<<l>> : l \in CsvLines}

NextPeriods ==
  \/ \E m \in Months : setSelectedMonth(m)
  \/ commitLoad
  \/ \E i \in 1..Len(records) : addNewExpenseField(records[i].day, 0, <<>>)
  \/ \E i \in 1..Len(records) : \E j \in 1..Len(records[i].expenses) :
       \/ \E v \in FieldAmountInputs :
            handleExpenseChange(records[i].day, records[i].expenses[j].id, "amount", v)
       \/ removeExpense(records[i].day, records[i].expenses[j].id)
  \/ handleImportDatabase
  \/ \E content \in PeriodFiles : importOnload("csv", content)

SpecPeriods == InitPeriods /\ [][NextPeriods]_vars

(***************************************************************************)
(* Receipt scan of the SCR variant (src/App.tsx:534-566): the camera       *)
(* button of a day, the file input's change event, and reader.onload with  *)
(* the amount extractAmountFromImage has returned.                         *)
(***************************************************************************)
\* what extractAmountFromImage returns: <<>> for null (an error, a text
\* without digits) or <<amount>>
ScanResults == {<<>>, <<0>>, <<60>>}

\* the label of a scanned expense, 'Escaneo Gasto'
ScanLabel == <<"E">>

\* handleCaptureClick(day) with an API key configured; the button is
\* disabled while loadingAI
handleCaptureClick(day) ==
  /\ variant = "SCR"
  /\ pendingLoad = <<>>
  /\ ~loadingAI
  /\ scanningDay' = <<day>>
  /\ UNCHANGED <<loadingAI, scans>>
  /\ UNCHANGED <<variant, scrVars, loadVars>>
  /\ UNCHANGED <<rsrVars, srvVars, syncVars>>

\* onFileChange with a file chosen, up to reader.readAsDataURL(file)
onFileChange ==
  /\ variant = "SCR"
  /\ pendingLoad = <<>>
  /\ scanningDay # <<>>
  /\ scans = <<>>
  /\ expensesInExistence < MaxExpenses
  /\ loadingAI' = TRUE
  /\ scans' = <<[day |-> scanningDay[1], month |-> selectedMonth]>>
  /\ UNCHANGED scanningDay
  /\ UNCHANGED <<variant, scrVars, loadVars>>
  /\ UNCHANGED <<rsrVars, srvVars, syncVars>>

\* reader.onload of onFileChange, from the result of extractAmountFromImage
scanOnload(amount) ==
  /\ variant = "SCR"
  /\ pendingLoad = <<>>
  /\ scans # <<>>
  /\ IF amount # <<>> /\ amount[1] > 0
     THEN setRecords(withNewExpense(records, scans[1].day, amount[1], ScanLabel))
     ELSE UNCHANGED <<records, localStorage, unparsable>>
  /\ loadingAI' = FALSE
  /\ scanningDay' = <<>>
  /\ scans' = <<>>
  /\ UNCHANGED <<variant, initialDailyBudget, selectedMonth, importPending, pendingLoad>>
  /\ UNCHANGED <<rsrVars, srvVars, syncVars>>

NextScan ==
  \/ \E m \in Months : setSelectedMonth(m)
  \/ commitLoad
  \/ \E i \in 1..Len(records) : handleCaptureClick(records[i].day)
  \/ onFileChange
  \/ \E amount \in ScanResults : scanOnload(amount)
  \/ \E i \in 1..Len(records) : \E j \in 1..Len(records[i].expenses) :
       removeExpense(records[i].day, records[i].expenses[j].id)

SpecScan == InitPeriods /\ [][NextScan]_vars

(***************************************************************************)
(* SRV variant (src/unnamed/part_007): the SCR application synchronised    *)
(* with a server.  Opening a month first asks the server for its records   *)
(* (initData, pullFromServer); every change of rebalancedRecords is stored *)
(* locally and pushed after 1500 ms (pushToServer).                        *)
(***************************************************************************)
\* what the server may answer for month m at the start: nothing usable (an
\* error, a non-OK status, a body that is no array), an array of another
\* length, or the ledger of the month with day 1 spent on
ServerItems(m) ==
  { <<>>,
    rebalancedRecords(createNewMonth(daysInMonthOf(m) + 1, m), DefaultBudget),
    rebalancedRecords(withNewExpense(createNewMonth(daysInMonthOf(m), m), 1, 60, <<"g">>),
                      DefaultBudget) }

\* what localStorage may hold under the key of month m at the start
LocalItems(m) ==
  { <<>>,
    rebalancedRecords(withNewExpense(createNewMonth(daysInMonthOf(m), m), 2, 25, <<"g">>),
                      DefaultBudget) }

\* first render and its effects: records is [], initData awaits the server
InitServer ==
  /\ variant = "SRV"
  /\ days = <<>>
  /\ dailyTarget = 0
  /\ daysInMonth = 0
  /\ initialDailyBudget = DefaultBudget
  /\ selectedMonth \in Months
  /\ records = <<>>
  /\ localStorage \in [Months -> UNION {LocalItems(m) : m \in Months}]
  /\ \A m \in Months : localStorage[m] \in LocalItems(m)
  /\ unparsable \in SUBSET {m \in Months : localStorage[m] = <<>>}
  /\ server \in [Months -> UNION {ServerItems(m) : m \in Months}]
  /\ \A m \in Months : server[m] \in ServerItems(m)
  /\ pulls = {selectedMonth}
  /\ pushTimer = <<>>
  /\ pendingLoad = <<>>
  /\ importPending = <<>>
  /\ syncKey = <<>>
  /\ isSyncing = FALSE
  /\ saveStatus = "idle"
  /\ connect = <<>>
  /\ saveTimers = <<>>
  /\ savesInFlight = <<>>
  /\ idleTimers = 0
  /\ scanningDay = <<>>
  /\ loadingAI = FALSE
  /\ scans = <<>>

\* setRecords(...) followed by the persist-and-push effect of the next render:
\* the cleanup clears the timer of the previous run; a non-empty
\* rebalancedRecords is stored under currentMonthKey and a new timer is set,
\* whose callback keeps the month and the records of that render
setRecordsAndPush(newRecords) ==
  LET rr == rebalancedRecords(newRecords, initialDailyBudget)
  IN  /\ records' = newRecords
      /\ IF Len(rr) > 0
         THEN /\ localStorage' = [localStorage EXCEPT ![selectedMonth] = rr]
              /\ unparsable' = unparsable \ {selectedMonth}
              /\ pushTimer' = <<[month |-> selectedMonth, records |-> rr]>>
         ELSE /\ UNCHANGED <<localStorage, unparsable>>
              /\ pushTimer' = <<>>

\* the month selector and the start of the initData effect of the next
\* render, up to its await of pullFromServer(selectedMonth, selectedYear)
initData(m) ==
  /\ variant = "SRV"
  /\ m # selectedMonth
  /\ selectedMonth' = m
  /\ pulls' = pulls \cup {m}
  /\ UNCHANGED <<records, initialDailyBudget, localStorage, unparsable, pushTimer, server>>
  /\ UNCHANGED <<variant, rsrVars, importPending, pendingLoad, syncVars, scanVars>>

\* the rest of an initData call made for month m: pullFromServer returns the
\* body of an OK response, or null; an array is installed as it is, anything
\* else makes the call fall back on the key and the month length of its render
initDataResume(m, ok) ==
  /\ variant = "SRV"
  /\ m \in pulls
  /\ pulls' = pulls \ {m}
  /\ LET serverData == IF ok THEN server[m] ELSE <<>>
     IN  IF serverData # <<>>
         THEN setRecordsAndPush([i \in 1..Len(serverData) |-> asRecord(serverData[i])])
         ELSE setRecordsAndPush(loadEffect(localStorage, unparsable, m))
  /\ UNCHANGED <<initialDailyBudget, selectedMonth, server>>
  /\ UNCHANGED <<variant, rsrVars, importPending, pendingLoad, syncVars, scanVars>>

\* the timer fires: pushToServer(rebalancedRecords) posts the month and the
\* records of the render that set the timer; the server keeps them when the
\* request succeeds
pushToServer(ok) ==
  /\ variant = "SRV"
  /\ pushTimer # <<>>
  /\ pushTimer' = <<>>
  /\ server' = IF ok
               THEN [server EXCEPT ![pushTimer[1].month] = pushTimer[1].records]
               ELSE server
  /\ UNCHANGED <<records, initialDailyBudget, selectedMonth, localStorage, unparsable, pulls>>
  /\ UNCHANGED <<variant, rsrVars, importPending, pendingLoad, syncVars, scanVars>>

\* the expenses held by the ledger, by localStorage and by the server
srvExpensesInExistence ==
  countExpenses(records) + storedExpenses(localStorage, Months)
    + storedExpenses(server, Months)

\* addNewExpenseField of the SRV variant (src/unnamed/part_007:189-201)
addNewExpenseFieldSrv(day, initialAmount, initialLabel) ==
  /\ variant = "SRV"
  /\ srvExpensesInExistence < MaxExpenses
  /\ setRecordsAndPush(withNewExpense(records, day, initialAmount, initialLabel))
  /\ UNCHANGED <<initialDailyBudget, selectedMonth, pulls, server>>
  /\ UNCHANGED <<variant, rsrVars, importPending, pendingLoad, syncVars, scanVars>>

\* removeExpense of the SRV variant (src/unnamed/part_007:203-211)
removeExpenseSrv(day, expenseId) ==
  /\ variant = "SRV"
  /\ setRecordsAndPush(removedExpense(records, day, expenseId))
  /\ UNCHANGED <<initialDailyBudget, selectedMonth, pulls, server>>
  /\ UNCHANGED <<variant, rsrVars, importPending, pendingLoad, syncVars, scanVars>>

NextServer ==
  \/ \E m \in Months : initData(m)
  \/ \E m \in Months, ok \in BOOLEAN : initDataResume(m, ok)
  \/ \E ok \in BOOLEAN : pushToServer(ok)
  \/ \E i \in 1..Len(records) : addNewExpenseFieldSrv(records[i].day, 0, <<>>)
  \/ \E i \in 1..Len(records) : \E j \in 1..Len(records[i].expenses) :
       removeExpenseSrv(records[i].day, records[i].expenses[j].id)

SpecServer == InitServer /\ [][NextServer]_vars

(***************************************************************************)
(* Cloud connection of the RSR variant (src/App.tsx:40-66 with             *)
(* src/services/syncService.ts).  A response of the key-value server is    *)
(* its kind and, for a body that JSON.parse accepts, the parsed value.     *)
(***************************************************************************)
\* what the user may type in the sync id field
SyncKeyInputs ==
  { <<"a", "b", "c">>, <<"a", "b", "c", "d">>, <<"a", "b", "c", "d", "e">> }

\* the length of the array syncService.load rebuilds (stands for 31)
LoadLength == MaxDays

\* a body written by syncService.save: target 40, day 2 with one expense
SavedBody ==
  [t |-> 40,
   d |-> <<[day |-> 2,
            expenses |-> <<[id |-> 1, amount |-> 60, description |-> <<"g">>]>>]>>]

\* a JSON body of another shape: the saved day has no expenses list
WrongBody == [t |-> 40, d |-> <<[day |-> 1]>>]

\* the answers to the GET of syncService.load
LoadResponses ==
  { [kind |-> "network error"], [kind |-> "not ok"], [kind |-> "empty"],
    [kind |-> "not found"], [kind |-> "unparsable"],
    [kind |-> "json", raw |-> WrongBody], [kind |-> "json", raw |-> SavedBody] }

\* raw.d?.find(sd => sd.day === i) || { day: i, expenses: [] }
savedDay(raw, i) ==
  IF \E k \in 1..Len(raw.d) : raw.d[k].day = i
  THEN raw.d[CHOOSE k \in 1..Len(raw.d) :
               raw.d[k].day = i /\ \A j \in 1..(k - 1) : raw.d[j].day # i]
  ELSE [day |-> i, expenses |-> <<>>]

\* syncService.load: <<>> for null, else <<cloudData>>
syncServiceLoad(key, response) ==
  IF Len(key) < 5 THEN <<>>
  ELSE IF response.kind # "json" THEN <<>>
  ELSE <<[target |-> response.raw.t,
          days   |-> [i \in 1..LoadLength |-> savedDay(response.raw, i)]]>>

\* syncService.save: the value it returns when the POST is answered with ok
syncServiceSave(key, ok) ==
  IF Len(key) < 5 THEN FALSE ELSE ok

\* minimalData of syncService.save: the target and the days with expenses
minimalData(data) ==
  [t |-> data.target,
   d |-> SelectSeq(data.days, LAMBDA d : Len(d.expenses) > 0)]

\* the text the server holds after a successful save is JSON.stringify of
\* minimalData; its keys, numbers and punctuation hold no blank, so it
\* includes "not found" exactly when a description does
NotFoundText == <<"n", "o", "t", " ", "f", "o", "u", "n", "d">>
textIncludesNotFound(raw) ==
  \E i \in 1..Len(raw.d) : \E j \in 1..Len(raw.d[i].expenses) :
    includes(raw.d[i].expenses[j].description, NotFoundText)

\* the answer to the GET of syncService.load when the server holds the text
\* of raw: load takes a text that includes "not found" for a missing key
responseToSaved(raw) ==
  IF textIncludesNotFound(raw)
  THEN [kind |-> "not found"]
  ELSE [kind |-> "json", raw |-> raw]

\* a ledger the RSR application can render: every record has its day and its
\* expenses list (stats reads d.expenses of every record, src/App.tsx:92)
rendersDays(ds) ==
  \A i \in 1..Len(ds) : DOMAIN ds[i] = {"day", "expenses"}

setSyncKey(str) ==
  /\ variant = "RSR"
  /\ syncKey' = str
  /\ UNCHANGED <<isSyncing, connect>>
  /\ UNCHANGED <<variant, rsrVars, scrVars, loadVars, srvVars, scanVars>>
  /\ autoSaveEffect

\* handleConnect up to the await of syncService.load(syncKey)
handleConnect ==
  /\ variant = "RSR"
  /\ ~isSyncing
  /\ IF Len(syncKey) < 4
     THEN UNCHANGED <<isSyncing, saveStatus, connect>>
     ELSE /\ isSyncing' = TRUE
          /\ saveStatus' = "saving"
          /\ connect' = <<[stage |-> "load", syncKey |-> syncKey]>>
  /\ UNCHANGED <<syncKey, autoVars>>
  /\ UNCHANGED <<variant, rsrVars, scrVars, loadVars, srvVars, scanVars>>

\* the request of syncService.load is answered
loadResponds(response) ==
  /\ variant = "RSR"
  /\ connect # <<>> /\ connect[1].stage = "load"
  /\ connect' = <<[stage |-> "loaded", syncKey |-> connect[1].syncKey,
                   response |-> response]>>
  /\ UNCHANGED <<syncKey, isSyncing, saveStatus, autoVars>>
  /\ UNCHANGED <<variant, rsrVars, scrVars, loadVars, srvVars, scanVars>>

\* handleConnect from the result of syncService.load to its end or to the
\* await of syncService.save; confirmed is the user's answer to confirm(...)
handleConnectLoaded(confirmed) ==
  /\ variant = "RSR"
  /\ connect # <<>> /\ connect[1].stage = "loaded"
  /\ LET cloudData == syncServiceLoad(connect[1].syncKey, connect[1].response)
     IN  IF cloudData # <<>>
         THEN /\ IF confirmed
                 THEN /\ days' = cloudData[1].days
                      /\ dailyTarget' = cloudData[1].target
                      /\ saveStatus' = "saved"
                 ELSE UNCHANGED <<days, dailyTarget, saveStatus>>
              /\ isSyncing' = FALSE
              /\ connect' = <<>>
         ELSE /\ IF confirmed
                 THEN /\ connect' = <<[stage |-> "save", syncKey |-> connect[1].syncKey]>>
                      /\ UNCHANGED isSyncing
                 ELSE /\ connect' = <<>>
                      /\ isSyncing' = FALSE
              /\ UNCHANGED <<days, dailyTarget, saveStatus>>
  /\ UNCHANGED <<syncKey, daysInMonth>>
  /\ UNCHANGED <<variant, scrVars, loadVars, srvVars, scanVars>>
  /\ autoSaveTimers

\* handleConnect from the result of syncService.save to its end
handleConnectSaved(ok) ==
  /\ variant = "RSR"
  /\ connect # <<>> /\ connect[1].stage = "save"
  /\ saveStatus' = IF syncServiceSave(connect[1].syncKey, ok) THEN "saved" ELSE "error"
  /\ isSyncing' = FALSE
  /\ connect' = <<>>
  /\ UNCHANGED <<syncKey, autoVars>>
  /\ UNCHANGED <<variant, rsrVars, scrVars, loadVars, srvVars, scanVars>>

\* most auto-saves awaiting their answer, most pending reset timers
MaxInFlight == 1
MaxIdleTimers == 1

\* s without its k-th element
removeAt(s, k) == SubSeq(s, 1, k - 1) \o SubSeq(s, k + 1, Len(s))

\* the callback of a pending timer of the auto-save effect, up to the await
\* of syncService.save: the save carries the days and target of the render
\* that set the timer; src/App.tsx sets 'saving' here
autoSaveFires(k) ==
  /\ variant \in RSRVariants
  /\ k \in 1..Len(saveTimers)
  /\ Len(savesInFlight) < MaxInFlight
  /\ saveTimers' = removeAt(saveTimers, k)
  /\ savesInFlight' = Append(savesInFlight, saveTimers[k])
  /\ saveStatus' = IF variant = "RSR" THEN "saving" ELSE saveStatus
  /\ UNCHANGED <<syncKey, isSyncing, connect, idleTimers>>
  /\ UNCHANGED <<variant, rsrVars, scrVars, loadVars, srvVars, scanVars>>

\* the callback from the answer to its save: setSaveStatus(ok ? 'saved' :
\* 'error'); src/unnamed/part_006 then starts the timer that resets to 'idle'
autoSaveResponds(k, ok) ==
  /\ variant \in RSRVariants
  /\ k \in 1..Len(savesInFlight)
  /\ (variant = "RSR6" /\ ok) => idleTimers < MaxIdleTimers
  /\ savesInFlight' = removeAt(savesInFlight, k)
  /\ saveStatus' = IF syncServiceSave(savesInFlight[k].syncKey, ok)
                   THEN "saved" ELSE "error"
  /\ idleTimers' = IF variant = "RSR6" /\ ok THEN idleTimers + 1 ELSE idleTimers
  /\ UNCHANGED <<syncKey, isSyncing, connect, saveTimers>>
  /\ UNCHANGED <<variant, rsrVars, scrVars, loadVars, srvVars, scanVars>>

\* setTimeout(() => setSaveStatus('idle'), 3000) of src/unnamed/part_006
idleTimerFires ==
  /\ variant = "RSR6"
  /\ idleTimers > 0
  /\ idleTimers' = idleTimers - 1
  /\ saveStatus' = "idle"
  /\ UNCHANGED <<syncKey, isSyncing, connect, saveTimers, savesInFlight>>
  /\ UNCHANGED <<variant, rsrVars, scrVars, loadVars, srvVars, scanVars>>

\* the application after its first render, in a month of MaxDays days
InitSync ==
  /\ InitRSR
  /\ daysInMonth = MaxDays
  /\ days = emptyDays(MaxDays)

\* a ledger that cannot be rendered ends the run: stats throws in the render
NextSync ==
  \/ rendersDays(days) /\ \E str \in SyncKeyInputs : setSyncKey(str)
  \/ rendersDays(days) /\ handleConnect
  \/ rendersDays(days) /\ \E response \in LoadResponses : loadResponds(response)
  \/ rendersDays(days) /\ \E confirmed \in BOOLEAN : handleConnectLoaded(confirmed)
  \/ rendersDays(days) /\ \E ok \in BOOLEAN : handleConnectSaved(ok)
  \/ rendersDays(days) /\ \E i \in 1..Len(days) :
       addExpense(days[i].day, <<"g">>, <<"2", "0">>)
  \/ rendersDays(days) /\ \E i \in 1..Len(days) : \E j \in 1..Len(days[i].expenses) :
       deleteExpense(days[i].day, days[i].expenses[j].id)
  \/ rendersDays(days) /\ \E k \in 1..Len(saveTimers) : autoSaveFires(k)
  \/ rendersDays(days) /\ \E k \in 1..Len(savesInFlight), ok \in BOOLEAN :
       autoSaveResponds(k, ok)

SpecSync == InitSync /\ [][NextSync]_vars

\* the application of src/unnamed/part_006 after its first render with a
\* stored sync id: the effect of that render has scheduled a save
InitAutoSave ==
  /\ variant = "RSR6"
  /\ daysInMonth = MaxDays
  /\ days = emptyDays(MaxDays)
  /\ dailyTarget = DefaultTarget
  /\ records = <<>>
  /\ initialDailyBudget = 0
  /\ selectedMonth = 0
  /\ localStorage = [m \in {} |-> <<>>]
  /\ importPending = <<>>
  /\ pendingLoad = <<>>
  /\ unparsable = {}
  /\ pulls = {}
  /\ pushTimer = <<>>
  /\ server = [m \in {} |-> <<>>]
  /\ syncKey = <<"a", "b", "c", "d", "e">>
  /\ isSyncing = FALSE
  /\ saveStatus = "saving"
  /\ connect = <<>>
  /\ saveTimers = timersAfterEffect(<<>>, syncKey, days, dailyTarget)
  /\ savesInFlight = <<>>
  /\ idleTimers = 0
  /\ scanningDay = <<>>
  /\ loadingAI = FALSE
  /\ scans = <<>>

NextAutoSave ==
  \/ \E i \in 1..Len(days) : addExpense(days[i].day, <<"g">>, <<"2", "0">>)
  \/ \E i \in 1..Len(days) : \E j \in 1..Len(days[i].expenses) :
       deleteExpense(days[i].day, days[i].expenses[j].id)
  \/ \E str \in TargetInputs : setDailyTarget(str)
  \/ \E k \in 1..Len(saveTimers) : autoSaveFires(k)
  \/ \E k \in 1..Len(savesInFlight), ok \in BOOLEAN : autoSaveResponds(k, ok)
  \/ idleTimerFires

SpecAutoSave == InitAutoSave /\ [][NextAutoSave]_vars

(***************************************************************************)
(* Properties of the RSR allocator (stats)                                 *)
(***************************************************************************)
\* C1: RSR allocator: for every ledger and day d,
\*     assigned(d) = dailyTarget - (totalExcess - excess(d)) / (N - 1), the
\*     divisor being 1 when N = 1, with excess(d) = max(0, spent(d) - target)
\*     and totalExcess taken over all days of the ledger, and
\*     remaining(d) = assigned(d) - spent(d).  N = 3, target 30, spends
\*     (60, 0, 0) gives allowances (30, 15, 15).
C1_RsrAllocation ==
  variant = "RSR" =>
    LET st      == stats(days, dailyTarget, daysInMonth)
        spent(i) == spentOf(days[i].expenses)
        exc(i)  == IF spent(i) > dailyTarget THEN spent(i) - dailyTarget ELSE 0
        tot     == ISum([i \in 1..Len(days) |-> exc(i)])
        div     == IF daysInMonth = 1 THEN 1 ELSE daysInMonth - 1
    IN  /\ Len(st) = Len(days)
        /\ \A i \in 1..Len(days) :
             /\ st[i].day = days[i].day
             /\ st[i].spent = spent(i)
             /\ st[i].assigned[2] > 0
             \* assigned = target - (tot - exc) / div
             /\ st[i].assigned[1] * div
                  = st[i].assigned[2] * (dailyTarget * div - (tot - exc(i)))
             \* remaining = assigned - spent
             /\ st[i].remaining[2] > 0
             /\ st[i].remaining[1] * st[i].assigned[2]
                  = st[i].remaining[2]
                      * (st[i].assigned[1] - spent(i) * st[i].assigned[2])
        /\ (/\ daysInMonth = 3 /\ dailyTarget = 30 /\ Len(days) = 3
            /\ spent(1) = 60 /\ spent(2) = 0 /\ spent(3) = 0)
           => /\ st[1].assigned = <<30, 1>>
              /\ st[2].assigned = <<15, 1>>
              /\ st[3].assigned = <<15, 1>>

\* the scenario of C1: three days, target 30, 60 spent on day 1 only
C1_Witness ==
  /\ variant = "RSR" /\ daysInMonth = 3 /\ dailyTarget = 30 /\ Len(days) = 3
  /\ spentOf(days[1].expenses) = 60
  /\ days[2].expenses = <<>> /\ days[3].expenses = <<>>

\* C6: RSR is retroactive and symmetric: adding an expense to day k that
\*     raises excess(k) by D leaves assigned(k) unchanged and lowers the
\*     assigned of every other day, earlier or later alike, by D / (N - 1)
\*     (the divisor being 1 when N = 1, as in C1).
C6_RsrRetroactive ==
  [][ \A k \in 1..Len(days) :
        ( /\ variant = "RSR"
          /\ dailyTarget' = dailyTarget /\ daysInMonth' = daysInMonth
          /\ Len(days') = Len(days)
          /\ Len(days'[k].expenses) = Len(days[k].expenses) + 1
          /\ SubSeq(days'[k].expenses, 1, Len(days[k].expenses)) = days[k].expenses
          /\ \A i \in 1..Len(days) : i # k => days'[i] = days[i] )
        => LET before == stats(days, dailyTarget, daysInMonth)
               after  == stats(days', dailyTarget', daysInMonth')
               exc(ds, i) == Max(0, spentOf(ds[i].expenses) - dailyTarget)
               D   == exc(days', k) - exc(days, k)
               div == IF daysInMonth = 1 THEN 1 ELSE daysInMonth - 1
           IN  /\ after[k].assigned = before[k].assigned
               /\ \A i \in 1..Len(days) : i # k =>
                    \* before - after = D / div
                    LET diff == RSub(before[i].assigned, after[i].assigned)
                    IN  diff[1] * div = D * diff[2]
    ]_vars

\* an expense over the target is on one day and the other days carry its penalty
C6_Witness ==
  /\ variant = "RSR" /\ daysInMonth >= 2 /\ Len(days) >= 3
  /\ \E k \in 2..(Len(days) - 1) :
       /\ spentOf(days[k].expenses) > dailyTarget
       /\ stats(days, dailyTarget, daysInMonth)[k].assigned = <<dailyTarget, 1>>
       /\ RLt(stats(days, dailyTarget, daysInMonth)[k - 1].assigned, <<dailyTarget, 1>>)
       /\ stats(days, dailyTarget, daysInMonth)[k + 1].assigned
            = stats(days, dailyTarget, daysInMonth)[k - 1].assigned

\* C7: RSR neutrality: for a ledger without expenses, and for any ledger in
\*     which no day spends more than dailyTarget, assigned(d) = dailyTarget
\*     for every day d.
C7_RsrNeutrality ==
  (/\ variant = "RSR"
   /\ \A i \in 1..Len(days) : spentOf(days[i].expenses) <= dailyTarget)
  => \A i \in 1..Len(days) :
       stats(days, dailyTarget, daysInMonth)[i].assigned = <<dailyTarget, 1>>

\* some day has spent money, no day more than the target
C7_Witness ==
  /\ variant = "RSR" /\ dailyTarget > 0
  /\ \E i \in 1..Len(days) : spentOf(days[i].expenses) > 0
  /\ \A i \in 1..Len(days) : spentOf(days[i].expenses) <= dailyTarget

(***************************************************************************)
(* Properties of the SCR allocator (rebalancedRecords)                     *)
(***************************************************************************)
\* C2: SCR allocator: the day at position i gets adjustedBudget =
\*     (totalBudget - spend of the locked days before i)
\*       / (N - number of locked days before i),
\*     totalBudget = initialDailyBudget * N; a locked day adds its spend and
\*     one processed day after its own allowance is computed, an unlocked day
\*     changes neither accumulator.  N = 3, base 30, only day 1 locked with
\*     spend 60 gives allowances (30, 15, 15).
C2_ScrAllocation ==
  variant = "SCR" =>
    LET N     == Len(records)
        total == initialDailyBudget * N
        out   == rebalancedRecords(records, initialDailyBudget)
        tr    == rebalancePass(records, initialDailyBudget, N).trace
        lockedBefore(i) == {j \in 1..(i - 1) : records[j].isLocked}
        spentBefore(i)  ==
          ISum([j \in 1..(i - 1) |->
                  IF records[j].isLocked THEN spentOf(records[j].expenses) ELSE 0])
    IN  /\ Len(out) = N
        /\ \A i \in 1..N :
             /\ out[i].adjustedBudget[2] > 0
             /\ out[i].adjustedBudget[1] * (N - Cardinality(lockedBefore(i)))
                  = out[i].adjustedBudget[2] * (total - spentBefore(i))
             /\ tr[i].accumulatedSpent = spentBefore(i)
             /\ tr[i].processedDaysCount = Cardinality(lockedBefore(i))
        /\ (/\ N = 3 /\ initialDailyBudget = 30
            /\ records[1].isLocked /\ spentOf(records[1].expenses) = 60
            /\ ~records[2].isLocked /\ ~records[3].isLocked)
           => /\ out[1].adjustedBudget = <<30, 1>>
              /\ out[2].adjustedBudget = <<15, 1>>
              /\ out[3].adjustedBudget = <<15, 1>>

\* the scenario of C2: three days, base 30, day 1 locked with 60
C2_Witness ==
  /\ variant = "SCR" /\ Len(records) = 3 /\ initialDailyBudget = 30
  /\ records[1].isLocked /\ spentOf(records[1].expenses) = 60
  /\ ~records[2].isLocked /\ ~records[3].isLocked

\* C3: SCR conservation: at every day visited by the pass,
\*     accumulatedSpent + remainingDays * allowance(day) = totalBudget, with
\*     the accumulatedSpent and remainingDays used for that day's allowance.
C3_ScrConservation ==
  variant = "SCR" =>
    LET N  == Len(records)
        tr == rebalancePass(records, initialDailyBudget, N).trace
    IN  \A i \in 1..N :
          /\ tr[i].currentTarget[2] > 0
          /\ tr[i].accumulatedSpent * tr[i].currentTarget[2]
               + tr[i].remainingDays * tr[i].currentTarget[1]
             = initialDailyBudget * N * tr[i].currentTarget[2]

\* a pass in which the accumulators have moved: a later day is visited with
\* money spent and a day processed
C3_Witness ==
  /\ variant = "SCR"
  /\ \E i \in 2..Len(records) :
       LET t == rebalancePass(records, initialDailyBudget, Len(records)).trace[i]
       IN  /\ t.accumulatedSpent > 0
           /\ t.remainingDays < Len(records)
           /\ t.currentTarget[2] > 1

\* C4 as stated: after the pass, the allowances of all unlocked days plus the
\*     total spent on the locked days add up to totalBudget.
C4_AsStated ==
  variant = "SCR" =>
    LET N   == Len(records)
        out == rebalancedRecords(records, initialDailyBudget)
        acc == rebalancePass(records, initialDailyBudget, N).accumulatedSpent
        unlockedSum ==
          RSum([i \in 1..N |->
                  IF records[i].isLocked THEN RInt(0) ELSE out[i].adjustedBudget])
    IN  RAdd(unlockedSum, RInt(acc)) = RInt(initialDailyBudget * N)

\* C4 (amended): when at least one day is unlocked and no unlocked day comes
\*     before a locked day, the allowances of the unlocked days plus the total
\*     spent on the locked days (the final accumulatedSpent) add up to
\*     totalBudget.
C4_ScrBudgetConserved ==
  (/\ variant = "SCR"
   /\ \E i \in 1..Len(records) : ~records[i].isLocked
   /\ \A i, j \in 1..Len(records) :
        (i < j /\ records[j].isLocked) => records[i].isLocked)
  => LET N   == Len(records)
         out == rebalancedRecords(records, initialDailyBudget)
         acc == rebalancePass(records, initialDailyBudget, N).accumulatedSpent
         unlockedSum ==
           RSum([i \in 1..N |->
                   IF records[i].isLocked THEN RInt(0) ELSE out[i].adjustedBudget])
         sum == RAdd(unlockedSum, RInt(acc))
     IN  /\ acc = ISum([i \in 1..N |->
                    IF records[i].isLocked THEN spentOf(records[i].expenses) ELSE 0])
         /\ sum[1] = initialDailyBudget * N * sum[2]

\* the first day is locked with money spent, at least two later days are not
C4_Witness ==
  /\ variant = "SCR" /\ Len(records) >= 3
  /\ records[1].isLocked /\ spentOf(records[1].expenses) > 0
  /\ \A i \in 2..Len(records) : ~records[i].isLocked

\* C5 as stated: every unlocked day, before or after the locked days, gets
\*     (totalBudget - total spent on locked days) / (number of unlocked days).
C5_AsStated ==
  variant = "SCR" =>
    LET N   == Len(records)
        out == rebalancedRecords(records, initialDailyBudget)
        lockedSpent ==
          ISum([i \in 1..N |->
                  IF records[i].isLocked THEN spentOf(records[i].expenses) ELSE 0])
        unlocked == {i \in 1..N : ~records[i].isLocked}
    IN  \A i \in unlocked :
          out[i].adjustedBudget[1] * Cardinality(unlocked)
            = out[i].adjustedBudget[2] * (initialDailyBudget * N - lockedSpent)

\* C5 (amended): every unlocked day that lies after all the locked days gets
\*     (totalBudget - total spent on locked days) / (number of unlocked days),
\*     the unlocked days before a locked day being counted in that number.
C5_ScrEvenAfterLocked ==
  variant = "SCR" =>
    LET N   == Len(records)
        out == rebalancedRecords(records, initialDailyBudget)
        lockedSpent ==
          ISum([i \in 1..N |->
                  IF records[i].isLocked THEN spentOf(records[i].expenses) ELSE 0])
        unlocked == {i \in 1..N : ~records[i].isLocked}
    IN  \A i \in unlocked :
          (\A j \in (i + 1)..N : ~records[j].isLocked)
          => out[i].adjustedBudget[1] * Cardinality(unlocked)
               = out[i].adjustedBudget[2] * (initialDailyBudget * N - lockedSpent)

\* an unlocked day, a locked day with money spent, then an unlocked day
C5_Witness ==
  /\ variant = "SCR" /\ Len(records) >= 3
  /\ ~records[1].isLocked
  /\ records[2].isLocked /\ spentOf(records[2].expenses) > 0
  /\ ~records[3].isLocked

\* C8: removal restores the pool: when removeExpense removes the only expense
\*     of the only locked day, that day becomes unlocked and the recompute
\*     gives adjustedBudget = initialDailyBudget on every day; any ledger
\*     without locked days yields adjustedBudget = initialDailyBudget on all
\*     days.
C8_RemovalRestoresPool ==
  /\ [](variant = "SCR" =>
          ((\A i \in 1..Len(records) : ~records[i].isLocked)
           => \A i \in 1..Len(records) :
                rebalancedRecords(records, initialDailyBudget)[i].adjustedBudget
                  = <<initialDailyBudget, 1>>))
  /\ [][ \A k \in 1..Len(records) :
           ( /\ variant = "SCR"
             /\ initialDailyBudget' = initialDailyBudget
             /\ records[k].isLocked /\ Len(records[k].expenses) = 1
             /\ \A i \in 1..Len(records) : i # k => ~records[i].isLocked
             \* the step removes that expense and touches nothing else
             /\ Len(records') = Len(records)
             /\ records'[k].expenses = <<>>
             /\ records'[k].day = records[k].day
             /\ \A i \in 1..Len(records) : i # k => records'[i] = records[i] )
           => /\ ~records'[k].isLocked
              /\ \A i \in 1..Len(records') :
                   rebalancedRecords(records', initialDailyBudget')[i].adjustedBudget
                     = <<initialDailyBudget, 1>>
       ]_vars

\* exactly one day, not the first, is locked, with one expense that moved the
\* allowance of a later day away from the base
C8_Witness ==
  /\ variant = "SCR"
  /\ \E k \in 2..(Len(records) - 1) :
       /\ records[k].isLocked /\ Len(records[k].expenses) = 1
       /\ \A i \in 1..Len(records) : i # k => ~records[i].isLocked
       /\ rebalancedRecords(records, initialDailyBudget)[k + 1].adjustedBudget
            # <<initialDailyBudget, 1>>

\* C9: SCR order sensitivity: for two locked days i < j whose spends differ,
\*     exchanging the two days' spends changes the allowance of at least one
\*     day in positions i+1..j; exchanging equal spends changes nothing.
C9_ScrOrderSensitive ==
  variant = "SCR" =>
    \A i, j \in 1..Len(records) :
      (i < j /\ records[i].isLocked /\ records[j].isLocked)
      => LET swapped == [records EXCEPT ![i].expenses = records[j].expenses,
                                        ![j].expenses = records[i].expenses]
             a == rebalancedRecords(records, initialDailyBudget)
             b == rebalancedRecords(swapped, initialDailyBudget)
         IN  IF spentOf(records[i].expenses) # spentOf(records[j].expenses)
             THEN \E k \in (i + 1)..j : a[k].adjustedBudget # b[k].adjustedBudget
             ELSE \A k \in 1..Len(records) : a[k].adjustedBudget = b[k].adjustedBudget

\* the first and the last day are locked with different spends
C9_Witness ==
  /\ variant = "SCR" /\ Len(records) >= 3
  /\ records[1].isLocked /\ records[Len(records)].isLocked
  /\ spentOf(records[1].expenses) > spentOf(records[Len(records)].expenses)
  /\ spentOf(records[Len(records)].expenses) > 0

(***************************************************************************)
(* Properties of the ledger operations                                     *)
(***************************************************************************)
\* C10: lock invariant of the SCR variant: from a fresh ledger, after any
\*      sequence of addNewExpenseField, handleExpenseChange, removeExpense and
\*      file imports, every day has isLocked = (expenses.length > 0): a day is
\*      locked by its first expense and unlocked when its last one is removed.
C10_LockInvariant ==
  variant = "SCR" =>
    \A i \in 1..Len(records) :
      records[i].isLocked = (Len(records[i].expenses) > 0)

\* a day locked by two expenses next to a day without any
C10_Witness ==
  /\ variant = "SCR"
  /\ \E i, j \in 1..Len(records) :
       /\ records[i].isLocked /\ Len(records[i].expenses) = 2
       /\ ~records[j].isLocked /\ records[j].expenses = <<>>

(***************************************************************************)
(* C14  Summary aggregator.  For the ledger of every reachable state of    *)
(* the SCR variant: totalBudget is the daily budget times the number of    *)
(* days, totalSpent is the sum of the amounts of all expenses of all days, *)
(* totalBalance is their difference, isOverBudget holds exactly when the   *)
(* balance is negative, and currentDailyAllowance is the balance divided   *)
(* by the number of unlocked days, or 0 when every day is locked.          *)
(***************************************************************************)
\* the amounts of all expenses of the ledger, day by day
RECURSIVE AllAmounts(_)
AllAmounts(recs) ==
  IF recs = <<>> THEN <<>>
  ELSE [j \in 1..Len(Head(recs).expenses) |-> Head(recs).expenses[j].amount]
         \o AllAmounts(Tail(recs))

C14_SummaryAggregator ==
  variant = "SCR" =>
    LET s        == summary(records, initialDailyBudget)
        N        == Len(records)
        unlocked == Cardinality({i \in 1..N : ~records[i].isLocked})
    IN  /\ s.totalBudget = initialDailyBudget * N
        /\ s.totalSpent = ISum(AllAmounts(records))
        /\ s.totalBalance = s.totalBudget - s.totalSpent
        /\ s.isOverBudget <=> (s.totalBalance < 0)
        /\ IF unlocked = 0
           THEN s.currentDailyAllowance = RInt(0)
           ELSE s.currentDailyAllowance[1] * unlocked
                  = (s.totalBudget - s.totalSpent) * s.currentDailyAllowance[2]

\* an over-budget month with locked and unlocked days and a non-zero allowance
C14_Witness ==
  /\ variant = "SCR"
  /\ \E i, j \in 1..Len(records) : records[i].isLocked /\ ~records[j].isLocked
  /\ summary(records, initialDailyBudget).isOverBudget
  /\ summary(records, initialDailyBudget).currentDailyAllowance[1] < 0
  /\ summary(records, initialDailyBudget).totalSpent > 0

(***************************************************************************)
(* C15  currentDailyAllowance and the allowance of the day spent on next.  *)
(***************************************************************************)
\* C15 as stated: on every ledger satisfying the lock invariant,
\*     currentDailyAllowance equals the adjustedBudget of every unlocked day.
C15_AsStated ==
  (variant = "SCR" /\ \A i \in 1..Len(records) :
                        records[i].isLocked = (Len(records[i].expenses) > 0))
  => LET out == rebalancedRecords(records, initialDailyBudget)
         s   == summary(records, initialDailyBudget)
     IN  \A d \in 1..Len(records) :
           ~records[d].isLocked
           => out[d].adjustedBudget = s.currentDailyAllowance

\* C15 (amended): on every ledger satisfying the lock invariant, for every
\*     unlocked day d that has no locked day after it, currentDailyAllowance
\*     equals the adjustedBudget the pass assigns to d, and d keeps that
\*     adjustedBudget in the step that adds an expense to d and changes no
\*     other day.
C15_AllowanceOfNextDay ==
  [][(variant = "SCR" /\ \A i \in 1..Len(records) :
                           records[i].isLocked = (Len(records[i].expenses) > 0))
     => LET out  == rebalancedRecords(records, initialDailyBudget)
            s    == summary(records, initialDailyBudget)
            out2 == rebalancedRecords(records', initialDailyBudget')
        IN  \A d \in 1..Len(records) :
              (~records[d].isLocked /\ \A j \in (d + 1)..Len(records) : ~records[j].isLocked)
              => /\ out[d].adjustedBudget = s.currentDailyAllowance
                 /\ ( /\ Len(records') = Len(records)
                      /\ initialDailyBudget' = initialDailyBudget
                      /\ Len(records'[d].expenses) = Len(records[d].expenses) + 1
                      /\ \A k \in 1..Len(records) : k # d => records'[k] = records[k] )
                    => out2[d].adjustedBudget = s.currentDailyAllowance
    ]_vars

\* an expense has just been added: two locked days with money spent, the later
\* one holding a fractional allowance, and an unlocked day after them
C15_Witness ==
  /\ variant = "SCR" /\ Len(records) >= 3
  /\ records[1].isLocked /\ spentOf(records[1].expenses) > 0
  /\ records[2].isLocked /\ spentOf(records[2].expenses) > 0
  /\ ~records[3].isLocked
  /\ rebalancedRecords(records, initialDailyBudget)[2].adjustedBudget[2] > 1
  /\ summary(records, initialDailyBudget).currentDailyAllowance
       = rebalancedRecords(records, initialDailyBudget)[3].adjustedBudget

(***************************************************************************)
(* C16  The allocator never mutates the ledger and is idempotent.  For the *)
(* ledger of every reachable state of the SCR variant: each record the     *)
(* pass returns has the day, expenses and isLocked of its input record,    *)
(* the pass run on its own output returns that output, and so does the     *)
(* pass run on the ledger loaded back from the stored output.              *)
(***************************************************************************)
C16_AllocatorPure ==
  variant = "SCR" =>
    LET out    == rebalancedRecords(records, initialDailyBudget)
        stored == [localStorage EXCEPT ![selectedMonth] = out]
    IN  /\ Len(out) = Len(records)
        /\ \A i \in 1..Len(records) :
             /\ out[i].day = records[i].day
             /\ out[i].expenses = records[i].expenses
             /\ out[i].isLocked = records[i].isLocked
        /\ rebalancedRecords(out, initialDailyBudget) = out
        /\ rebalancedRecords(loadMonth(stored, selectedMonth), initialDailyBudget) = out

\* a stored ledger with an unlocked day, a locked day with money spent and a
\* fractional allowance after it
C16_Witness ==
  /\ variant = "SCR" /\ Len(records) >= 3
  /\ ~records[1].isLocked
  /\ records[2].isLocked /\ spentOf(records[2].expenses) > 0
  /\ localStorage[selectedMonth] = rebalancedRecords(records, initialDailyBudget)
  /\ localStorage[selectedMonth][3].adjustedBudget[2] > 1

(***************************************************************************)
(* C19  Out-of-range day numbers are rejected with the ledger unchanged.   *)
(* For the ledger of every reachable state of the SCR variant: an add, an  *)
(* edit or a remove addressed to a day number the ledger does not hold     *)
(* returns the ledger as it was, and so does an imported CSV or Markdown   *)
(* row whose day lies outside 1..daysInMonth, processed when the ledger    *)
(* under construction is that ledger.                                      *)
(***************************************************************************)
\* the rows of CsvLines and MdLines whose day is 9
OutOfRangeCsvLine == <<"9", ",", "g", ",", "6", "0">>
OutOfRangeMdRow ==
  <<"|", " ", "9", " ", "|", " ", "g", " ", "|", " ", "$", "6", "0", " ", "|">>

C19_OutOfRangeRejected ==
  variant = "SCR" =>
    LET held == {records[i].day : i \in 1..Len(records)}
        dim  == Len(records)
    IN  /\ \A day \in (0..(MaxDays + 1)) \ held :
             /\ withNewExpense(records, day, 60, <<"g">>) = records
             /\ \A id \in idsOf(records) \cup {1} :
                  /\ \A v \in FieldAmountInputs :
                       changedExpense(records, day, id, "amount", v) = records
                  /\ changedExpense(records, day, id, "label", <<"g">>) = records
                  /\ removedExpense(records, day, id) = records
        /\ importCsvLine(records, OutOfRangeCsvLine, dim) = records
        /\ importMdRow(records, OutOfRangeMdRow, dim) = records
        /\ importLines(records, <<OutOfRangeCsvLine>>, "csv", dim) = records
        /\ importLines(records, <<OutOfRangeMdRow>>, "md", dim) = records

\* a month shorter than the longest one, so that day MaxDays is out of range,
\* holding a locked day with an expense and an unlocked day
C19_Witness ==
  /\ variant = "SCR"
  /\ Len(records) < MaxDays /\ Len(records) >= 2
  /\ OutOfRangeCsvLine \in CsvLines /\ OutOfRangeMdRow \in MdLines
  /\ \E i, j \in 1..Len(records) :
       /\ records[i].isLocked /\ Len(records[i].expenses) > 0
       /\ ~records[j].isLocked

(***************************************************************************)
(* C11  Invalid amounts are rejected.                                      *)
(***************************************************************************)
\* C11 as stated: in every reachable state every stored expense amount is a
\*     number >= 0, non-numeric and negative amounts having been rejected by
\*     addExpense, by the edit of an amount and by the import of a row.
C11_AsStated ==
  /\ \A i \in 1..Len(days) : \A j \in 1..Len(days[i].expenses) :
       days[i].expenses[j].amount >= 0
  /\ \A i \in 1..Len(records) : \A j \in 1..Len(records[i].expenses) :
       records[i].expenses[j].amount >= 0

(***************************************************************************)
(* C12  Ledger shape invariant.                                            *)
(***************************************************************************)
\* C12 as stated: in every reachable state the ledger holds exactly one record
\*     for each day of the active month, numbered 1..N in order, N being the
\*     calendar length the allocator divides by.
C12_AsStated ==
  /\ variant = "RSR" =>
       /\ Len(days) = daysInMonth
       /\ \A i \in 1..Len(days) : days[i].day = i
  /\ variant = "SCR" =>
       /\ Len(records) = daysInMonthOf(selectedMonth)
       /\ \A i \in 1..Len(records) : records[i].day = i

(***************************************************************************)
(* C18  Periods are independent.                                           *)
(***************************************************************************)
\* C18 as stated: at every moment the ledger stored under the key of a month
\*     is a ledger of that month: each of its records carries a date of that
\*     month, also between a change of month and the end of the new month's
\*     load.
C18_AsStated ==
  variant = "SCR" =>
    \A m \in Months : \A i \in 1..Len(localStorage[m]) :
      localStorage[m][i].date[1] = m

(***************************************************************************)
(* C20  Remote pulls are serialized with the selected period.              *)
(***************************************************************************)
\* C20 as stated: in the server-synced variant, once no pull is in flight the
\*     ledger in memory is the one pulled or loaded for the selected month:
\*     each of its records carries a date of that month, whatever the order
\*     in which the responses arrived.
C20_AsStated ==
  (variant = "SRV" /\ pulls = {}) =>
    \A i \in 1..Len(records) : records[i].date[1] = selectedMonth

(***************************************************************************)
(* C13  Opening a period.                                                  *)
(***************************************************************************)
\* the ledger the claim describes for month m when the persisted data
\* consulted is src (<<>>: nothing, or a text that does not parse)
C13_Opened(src, m) ==
  IF src # <<>> /\ Len(src) = daysInMonthOf(m)
  THEN [i \in 1..Len(src) |-> asRecord(src[i])]
  ELSE createNewMonth(daysInMonthOf(m), m)

\* C13 as stated: in the server-synced variant, the step that completes the
\*     opening of month m leaves the ledger the claim describes for the data
\*     consulted, be it the array of the server or the entry of localStorage:
\*     that data unchanged when it has as many records as the month has days,
\*     and else a fresh month of daysInMonth empty, unlocked days.
C13_AsStated ==
  [][variant = "SRV" =>
       \A m \in pulls \ pulls' :
         \/ server[m] # <<>> /\ records' = C13_Opened(server[m], m)
         \/ records' = C13_Opened(IF m \in unparsable THEN <<>> ELSE localStorage[m], m)
    ]_vars

(***************************************************************************)
(* C17  Remote sync failures never corrupt the in-memory ledger.           *)
(***************************************************************************)
\* C17 as stated: when handleConnect resumes from a load that failed or gave
\*     nothing usable (network error, non-OK response, empty, 'not found',
\*     unparsable or wrongly shaped body), and when it resumes from its save,
\*     days and dailyTarget are left as they were; and the ledger is a list
\*     of valid day records after every step.
C17_AsStated ==
  [][variant = "RSR" =>
       /\ ( /\ connect # <<>> /\ connect' # connect
            /\ \/ connect[1].stage = "save"
               \/ /\ connect[1].stage = "loaded"
                  /\ connect[1].response # [kind |-> "json", raw |-> SavedBody] )
          => (days' = days /\ dailyTarget' = dailyTarget)
       /\ rendersDays(days')
    ]_vars

(***************************************************************************)
(* C26  The zero guard of the SCR pass.                                    *)
(***************************************************************************)
\* C26: the SCR zero guard is never taken inside the pass: for every
\*      non-empty ledger, also one in which every day is locked,
\*      remainingDays >= 1 at every day visited, and every adjustedBudget is
\*      remainingBudget / remainingDays.
C26_GuardNeverTaken ==
  (variant = "SCR" /\ Len(records) > 0) =>
    LET N   == Len(records)
        p   == rebalancePass(records, initialDailyBudget, N)
    IN  \A i \in 1..N :
          /\ p.trace[i].remainingDays >= 1
          /\ p.out[i].adjustedBudget[2] > 0
          /\ p.out[i].adjustedBudget[1] * p.trace[i].remainingDays
               = p.trace[i].remainingBudget * p.out[i].adjustedBudget[2]

\* every day of the ledger is locked, and the last day is visited with one
\* day remaining
C26_Witness ==
  /\ variant = "SCR" /\ Len(records) >= 2
  /\ \A i \in 1..Len(records) : records[i].isLocked
  /\ LET p == rebalancePass(records, initialDailyBudget, Len(records))
     IN  /\ p.trace[Len(records)].remainingDays = 1
         /\ p.trace[Len(records)].processedDaysCount = Len(records) - 1

(***************************************************************************)
(* C25  SCR allowances depend only on earlier days.                        *)
(***************************************************************************)
\* C25: the adjustedBudget of day d is a function of the lock flags and
\*      spends of the days with a smaller day number only: a step that adds,
\*      edits or removes expenses on day k (and leaves the days before k and
\*      the base alone) never changes the adjustedBudget of a day d <= k, and
\*      day 1's adjustedBudget always equals initialDailyBudget.
C25_EarlierDaysOnly ==
  /\ [](variant = "SCR" /\ Len(records) > 0
          => rebalancedRecords(records, initialDailyBudget)[1].adjustedBudget
               = <<initialDailyBudget, 1>>)
  /\ [][ (variant = "SCR" /\ initialDailyBudget' = initialDailyBudget
                          /\ Len(records') = Len(records))
         => \A k \in 1..Len(records) :
              (\A i \in 1..(k - 1) :
                  /\ records'[i].isLocked = records[i].isLocked
                  /\ spentOf(records'[i].expenses) = spentOf(records[i].expenses))
              => \A d \in 1..k :
                   rebalancedRecords(records', initialDailyBudget')[d].adjustedBudget
                     = rebalancedRecords(records, initialDailyBudget)[d].adjustedBudget
       ]_vars

\* an expense of day 2 carries an amount while day 1 is locked with a spend
\* that moved day 2's allowance away from the base: the steps that led here
\* changed day 2 with an allowance that depends on day 1
C25_Witness ==
  /\ variant = "SCR" /\ Len(records) >= 3
  /\ records[1].isLocked /\ spentOf(records[1].expenses) > 0
  /\ records[2].isLocked /\ spentOf(records[2].expenses) > 0
  /\ rebalancedRecords(records, initialDailyBudget)[2].adjustedBudget
       # <<initialDailyBudget, 1>>
  /\ rebalancedRecords(records, initialDailyBudget)[3].adjustedBudget
       # rebalancedRecords(records, initialDailyBudget)[2].adjustedBudget

(***************************************************************************)
(* C23  Direction of the SCR carry-forward.                                *)
(***************************************************************************)
\* C23: for every ledger and every locked day d that is not the last day,
\*      the allowance of day d+1 is greater than, equal to, or less than the
\*      allowance of day d exactly when spent(d) is less than, equal to, or
\*      greater than allowance(d); after an unlocked day d the allowance of
\*      day d+1 equals the allowance of d.
C23_CarryForwardDirection ==
  variant = "SCR" =>
    LET out == rebalancedRecords(records, initialDailyBudget)
    IN  \A d \in 1..(Len(records) - 1) :
          LET a     == out[d].adjustedBudget
              b     == out[d + 1].adjustedBudget
              spent == RInt(spentOf(records[d].expenses))
          IN  IF records[d].isLocked
              THEN /\ RLt(a, b) <=> RLt(spent, a)
                   /\ (a = b)   <=> (spent = a)
                   /\ RLt(b, a) <=> RLt(a, spent)
              ELSE a = b

\* a day locked above its allowance is followed by a day locked below its
\* allowance, so the allowance first falls and then rises
C23_Witness ==
  /\ variant = "SCR" /\ Len(records) >= 3
  /\ LET out == rebalancedRecords(records, initialDailyBudget)
     IN  /\ records[1].isLocked /\ records[2].isLocked
         /\ RLt(out[1].adjustedBudget, RInt(spentOf(records[1].expenses)))
         /\ RLt(RInt(spentOf(records[2].expenses)), out[2].adjustedBudget)
         /\ spentOf(records[2].expenses) > 0
         /\ RLt(out[2].adjustedBudget, out[1].adjustedBudget)
         /\ RLt(out[2].adjustedBudget, out[3].adjustedBudget)

\* a locked day whose spend equals its allowance next to a following day
C23_WitnessEqual ==
  /\ variant = "SCR"
  /\ \E d \in 1..(Len(records) - 1) :
       /\ records[d].isLocked
       /\ RInt(spentOf(records[d].expenses))
            = rebalancedRecords(records, initialDailyBudget)[d].adjustedBudget

(***************************************************************************)
(* C27  RSR deducts each unit of overspend once.                           *)
(***************************************************************************)
\* C27: for every ledger of N >= 2 days whose length equals the N used as
\*      divisor, the sum of assigned(d) over all days equals
\*      dailyTarget * N - totalExcess, and the sum of remaining(d) equals
\*      dailyTarget * N - totalExcess - totalSpent.
C27_OverspendDeductedOnce ==
  (variant = "RSR" /\ daysInMonth >= 2 /\ Len(days) = daysInMonth) =>
    LET N          == daysInMonth
        st         == stats(days, dailyTarget, daysInMonth)
        totalSpent == ISum([i \in 1..N |-> spentOf(days[i].expenses)])
        excess     == totalExcess(days, dailyTarget)
    IN  /\ RSum([i \in 1..N |-> st[i].assigned])
             = RInt(dailyTarget * N - excess)
        /\ RSum([i \in 1..N |-> st[i].remaining])
             = RInt(dailyTarget * N - excess - totalSpent)

\* a full-length ledger with overspend on one day and a spend within the
\* target on another
C27_Witness ==
  /\ variant = "RSR" /\ daysInMonth >= 2 /\ Len(days) = daysInMonth
  /\ totalExcess(days, dailyTarget) > 0
  /\ \E i, j \in 1..Len(days) :
       /\ spentOf(days[i].expenses) > dailyTarget
       /\ spentOf(days[j].expenses) > 0
       /\ spentOf(days[j].expenses) <= dailyTarget
       /\ RLt(stats(days, dailyTarget, daysInMonth)[j].assigned, RInt(dailyTarget))

(***************************************************************************)
(* C30  Add then remove is the identity on the ledger.                     *)
(***************************************************************************)
\* C30: for every ledger and day k, adding an expense to day k and then
\*      removing that same expense restores every day's expense list and
\*      isLocked flag exactly (day k is unlocked again if it was empty
\*      before, stays locked otherwise), all other days are untouched by
\*      both steps, and all allowances return to their previous values.
C30_AddThenRemove ==
  variant = "SCR" =>
    \A k \in 1..Len(records) : \A amount \in {0, 60} :
      LET day     == records[k].day
          added   == withNewExpense(records, day, amount, <<>>)
          newId   == added[k].expenses[Len(added[k].expenses)].id
          removed == removedExpense(added, day, newId)
      IN  /\ Len(added[k].expenses) = Len(records[k].expenses) + 1
          /\ added[k].isLocked
          /\ \A i \in 1..Len(records) : i # k =>
                added[i] = records[i] /\ removed[i] = records[i]
          /\ removed[k].expenses = records[k].expenses
          /\ removed[k].isLocked = records[k].isLocked
          /\ removed[k].isLocked = (records[k].expenses # <<>>)
          /\ removed = records
          /\ rebalancedRecords(removed, initialDailyBudget)
               = rebalancedRecords(records, initialDailyBudget)

\* a ledger with a locked day holding an expense, an empty unlocked day, and
\* a next-day allowance that an added expense of 60 would move
C30_Witness ==
  /\ variant = "SCR" /\ Len(records) >= 3
  /\ records[1].isLocked /\ Len(records[1].expenses) = 1
  /\ ~records[2].isLocked /\ records[2].expenses = <<>>
  /\ rebalancedRecords(withNewExpense(records, 2, 60, <<>>), initialDailyBudget)[3]
       # rebalancedRecords(records, initialDailyBudget)[3]

(***************************************************************************)
(* C22  Round trip of the minified sync format.                            *)
(***************************************************************************)
\* C22 as stated: for every target and every ledger, syncService.load(key)
\*      after a successful syncService.save(key, {days, target}) returns the
\*      same target and a days array equal to the saved one: same number of
\*      day records, same day numbers, the same expenses on every day.
C22_AsStated ==
  variant = "RSR" =>
    LET key    == <<"a", "b", "c", "d", "e">>
        ledgers == {days} \cup
                   { appendExpense(days, days[i].day,
                       [id |-> generateId(days), amount |-> 20,
                        description |-> NotFoundText]) : i \in 1..Len(days) }
    IN  \A ledger \in ledgers :
          syncServiceSave(key, TRUE) =>
            LET loaded == syncServiceLoad(key,
                            responseToSaved(minimalData([days |-> ledger,
                                                         target |-> dailyTarget])))
            IN  /\ loaded # <<>>
                /\ loaded[1].target = dailyTarget
                /\ Len(loaded[1].days) = Len(ledger)
                /\ \A i \in 1..Len(ledger) :
                     /\ loaded[1].days[i].day = ledger[i].day
                     /\ loaded[1].days[i].expenses = ledger[i].expenses

(***************************************************************************)
(* C21  Debounced auto-save.                                               *)
(***************************************************************************)
\* C21: for any burst of changes to the ledger or target, each within the
\*      debounce delay of the previous one, exactly one remote save is
\*      issued, after the last change, and it carries the latest ledger and
\*      target; a superseded timer never issues a save, and no save carries
\*      a state older than the one current when its timer was started.
\*      Stated on the steps: at most one timer is pending and it holds the
\*      current ledger, target and sync id; a change issues no save and
\*      leaves exactly the timer of the new state (when the sync id has more
\*      than 4 characters); a save is issued only by the pending timer, with
\*      the current ledger and target, and leaves no timer behind.
C21_Debounce ==
  /\ [](variant \in RSRVariants =>
          /\ Len(saveTimers) <= 1
          /\ \A k \in 1..Len(saveTimers) :
               saveTimers[k] = [syncKey |-> syncKey, days |-> days,
                                target |-> dailyTarget])
  /\ [][ LET changed == <<days', dailyTarget', syncKey'>> # <<days, dailyTarget, syncKey>>
             issued  == Len(savesInFlight') > Len(savesInFlight)
             timerOfNewState == [syncKey |-> syncKey', days |-> days',
                                 target |-> dailyTarget']
         IN  variant \in RSRVariants =>
               /\ changed => savesInFlight' = savesInFlight
               /\ (changed /\ Len(syncKey') > 4) => saveTimers' = <<timerOfNewState>>
               /\ (changed /\ Len(syncKey') <= 4) => saveTimers' = <<>>
               /\ issued => saveTimers # <<>>
               /\ issued => savesInFlight' = Append(savesInFlight, saveTimers[1])
               /\ issued => savesInFlight'[Len(savesInFlight')].days = days
               /\ issued => savesInFlight'[Len(savesInFlight')].target = dailyTarget
               /\ issued => saveTimers' = <<>>
     ]_vars

\* the save of an earlier burst is in flight with the ledger of that time,
\* and the timer of a later change is pending with the ledger of now
C21_Witness ==
  /\ variant = "RSR"
  /\ savesInFlight # <<>> /\ saveTimers # <<>>
  /\ countExpenses(savesInFlight[1].days) = 1
  /\ countExpenses(days) = 2
  /\ saveTimers[1].days = days

(***************************************************************************)
(* C29  The reset-to-idle timer of src/unnamed/part_006.                   *)
(***************************************************************************)
\* C29 as stated: in the variant whose auto-save resets the indicator to
\*      'idle' after a successful save, saveStatus is never 'idle' or
\*      'saved' while a debounced save for a newer change is scheduled or in
\*      flight.
C29_AsStated ==
  variant = "RSR6" =>
    ((saveTimers # <<>> \/ savesInFlight # <<>>)
       => saveStatus \notin {"idle", "saved"})

\* C29, the timer alone: a firing reset-to-idle timer never finds a save
\*      scheduled or in flight.
C29_ResetTimerAsStated ==
  [][ (variant = "RSR6" /\ idleTimers' < idleTimers)
        => (saveTimers = <<>> /\ savesInFlight = <<>>) ]_vars

(***************************************************************************)
(* C28  The sync status indicator does not stay busy.                      *)
(***************************************************************************)
\* C28 as stated: every handleConnect run that sets saveStatus to 'saving'
\*      is followed by 'saved', 'error' or 'idle', for every server response
\*      and every answer to the confirmation dialogs, and isSyncing is reset
\*      to false: once no connect is running and no auto-save is scheduled
\*      or in flight, saveStatus is not 'saving' and isSyncing is false.
C28_AsStated ==
  variant = "RSR" =>
    ((connect = <<>> /\ saveTimers = <<>> /\ savesInFlight = <<>>)
       => (saveStatus # "saving" /\ ~isSyncing))

(***************************************************************************)
(* C24  A receipt scan feeds back as one normal expense entry.             *)
(***************************************************************************)
\* C24 as stated: a scan started for day k of the selected period ends in
\*      one of two ways: exactly one expense, with an amount > 0, is appended
\*      to day k of the ledger of the period that was selected when the scan
\*      was started, and that day is locked; or the ledger is unchanged.  In
\*      both cases loadingAI and scanningDay are reset.
C24_AsStated ==
  [][ (variant = "SCR" /\ scans # <<>> /\ scans' = <<>>) =>
        LET k == scans[1].day
            m == scans[1].month
            appended ==
              /\ Len(records') = Len(records)
              /\ \A i \in 1..Len(records) :
                   IF records[i].day = k
                   THEN /\ records[i].date[1] = m
                        /\ records'[i].day = k
                        /\ records'[i].date = records[i].date
                        /\ records'[i].isLocked
                        /\ Len(records'[i].expenses) = Len(records[i].expenses) + 1
                        /\ SubSeq(records'[i].expenses, 1, Len(records[i].expenses))
                             = records[i].expenses
                        /\ records'[i].expenses[Len(records'[i].expenses)].amount > 0
                   ELSE records'[i] = records[i]
        IN  /\ appended \/ records' = records
            /\ ~loadingAI'
            /\ scanningDay' = <<>>
    ]_vars

====
